---- MODULE Spec2Model ----
(***************************************************************************)
(* A model of the financial_planning simulation engine                     *)
(* (financial_planning_lib): fixed-point Money and Rate, the calendar,     *)
(* LookupTable, flows and their tax policies, the annual tax adjustment    *)
(* and the Model / CategoryModel year-and-month driver.                    *)
(*                                                                         *)
(* Money and Rate are i64 in the source.  TLC's integers are 32 bits wide, *)
(* so every i64 is carried as a sign and a little-endian sequence of       *)
(* base-1000 limbs ("wide" values); the arithmetic on them is exact and    *)
(* the 64-bit range is checked where the source checks it (or fails to).   *)
(***************************************************************************)
EXTENDS Integers, Sequences, FiniteSets, TLC

VARIABLES
    build,            \* "debug" | "release": how unchecked i64 overflow behaves
    call,             \* the pure operation under test and its arguments
    ret,              \* its outcome ("pending" before it ran)
    pc,               \* position of the simulation: see Model_new / Model_run
    input,            \* the arguments given to Model::new and Model::run
    flows,            \* Model.flows: category name -> sequence of Flow
    category_values,  \* the CategoryValue of every category during run
    cur_year,         \* the year the loop of Model::run is about to process
    out,              \* the BTreeMap<Year, YearlyReport> built by Model::run
    failure,          \* the Err that reached CategoryModel::run, if any
    tbl               \* the LookupTable under test (<<>> while there is none)

vars ==
    <<build, call, ret, pc, input, flows, category_values, cur_year, out, failure, tbl>>

simVars == <<pc, input, flows, category_values, cur_year, out, failure>>

(***************************************************************************)
(* Wide integers                                                           *)
(***************************************************************************)
LimbBase == 10^3

RECURSIVE Norm(_)
Norm(m) ==
    IF m = <<>> THEN <<>>
    ELSE IF m[Len(m)] = 0 THEN Norm(SubSeq(m, 1, Len(m) - 1))
    ELSE m

RECURSIVE MagOf(_)
MagOf(n) == IF n = 0 THEN <<>> ELSE <<n % LimbBase>> \o MagOf(n \div LimbBase)

Limb(a, i) == IF i <= Len(a) THEN a[i] ELSE 0

RECURSIVE MagCmpAt(_, _, _)
MagCmpAt(a, b, i) ==
    IF i = 0 THEN 0
    ELSE IF a[i] < b[i] THEN -1
    ELSE IF a[i] > b[i] THEN 1
    ELSE MagCmpAt(a, b, i - 1)

MagCmp(a, b) ==
    IF Len(a) < Len(b) THEN -1
    ELSE IF Len(a) > Len(b) THEN 1
    ELSE MagCmpAt(a, b, Len(a))

RECURSIVE MagAddAt(_, _, _, _)
MagAddAt(a, b, i, carry) ==
    IF i > Len(a) /\ i > Len(b)
    THEN (IF carry = 0 THEN <<>> ELSE <<carry>>)
    ELSE LET s == Limb(a, i) + Limb(b, i) + carry
         IN  <<s % LimbBase>> \o MagAddAt(a, b, i + 1, s \div LimbBase)

MagAdd(a, b) == Norm(MagAddAt(a, b, 1, 0))

RECURSIVE MagSubAt(_, _, _, _)
MagSubAt(a, b, i, borrow) ==
    IF i > Len(a) THEN <<>>
    ELSE LET d == a[i] - Limb(b, i) - borrow
         IN  IF d < 0
             THEN <<d + LimbBase>> \o MagSubAt(a, b, i + 1, 1)
             ELSE <<d>> \o MagSubAt(a, b, i + 1, 0)

\* a - b for a >= b
MagSub(a, b) == Norm(MagSubAt(a, b, 1, 0))

RECURSIVE MagMulLimbAt(_, _, _, _)
MagMulLimbAt(a, k, i, carry) ==
    IF i > Len(a) THEN MagOf(carry)
    ELSE LET p == a[i] * k + carry
         IN  <<p % LimbBase>> \o MagMulLimbAt(a, k, i + 1, p \div LimbBase)

RECURSIVE MagMulAt(_, _, _)
MagMulAt(a, b, j) ==
    IF j > Len(b) THEN <<>>
    ELSE MagAddAt(MagMulLimbAt(a, b[j], 1, 0), <<0>> \o MagMulAt(a, b, j + 1), 1, 0)

MagMul(a, b) == Norm(MagMulAt(a, b, 1))

RECURSIVE MagDivAt(_, _, _, _)
MagDivAt(a, d, i, rem) ==
    IF i = 0 THEN <<>>
    ELSE LET cur == rem * LimbBase + a[i]
         IN  MagDivAt(a, d, i - 1, cur % d) \o <<cur \div d>>

\* a divided by the native d, 0 < d < LimbBase^2, rounded down
MagDiv(a, d) == Norm(MagDivAt(a, d, Len(a), 0))

Wide(neg, mag) == [neg |-> neg /\ mag # <<>>, mag |-> mag]

\* the wide value of a native integer
I(n) == Wide(n < 0, MagOf(IF n < 0 THEN -n ELSE n))

Zero == I(0)

WNeg(x) == Wide(~x.neg, x.mag)

WAbs(x) == Wide(FALSE, x.mag)

WAdd(x, y) ==
    IF x.neg = y.neg THEN Wide(x.neg, MagAdd(x.mag, y.mag))
    ELSE IF MagCmp(x.mag, y.mag) >= 0 THEN Wide(x.neg, MagSub(x.mag, y.mag))
    ELSE Wide(y.neg, MagSub(y.mag, x.mag))

WSub(x, y) == WAdd(x, WNeg(y))

WMul(x, y) == Wide(x.neg # y.neg, MagMul(x.mag, y.mag))

WLt(x, y) ==
    IF x.neg /\ ~y.neg THEN TRUE
    ELSE IF ~x.neg /\ y.neg THEN FALSE
    ELSE IF x.neg THEN MagCmp(x.mag, y.mag) > 0
    ELSE MagCmp(x.mag, y.mag) < 0

WLe(x, y) == x = y \/ WLt(x, y)

WMax(x, y) == IF WLt(x, y) THEN y ELSE x

\* the largest q in lo..hi with d * q <= r (d * lo <= r is given)
RECURSIVE MagQuotDigit(_, _, _, _)
MagQuotDigit(r, d, lo, hi) ==
    IF lo = hi THEN lo
    ELSE LET mid == (lo + hi + 1) \div 2
         IN  IF MagCmp(Norm(MagMulLimbAt(d, mid, 1, 0)), r) <= 0
             THEN MagQuotDigit(r, d, mid, hi)
             ELSE MagQuotDigit(r, d, lo, mid - 1)

\* long division of a by the magnitude d # <<>>: <<quotient limbs, remainder>>
RECURSIVE MagLongDivAt(_, _, _, _)
MagLongDivAt(a, d, i, rem) ==
    IF i = 0 THEN <<>>
    ELSE CHOOSE res \in
           {MagLongDivAt(a, d, i - 1, MagSub(cur, Norm(MagMulLimbAt(d, q, 1, 0)))) \o <<q>> :
              <<cur, q>> \in {<<c, MagQuotDigit(c, d, 0, LimbBase - 1)>> :
                                c \in {Norm(<<a[i]>> \o rem)}}} : TRUE

MagLongDiv(a, d) == Norm(MagLongDivAt(a, d, Len(a), <<>>))

\* i64 `/`: the quotient truncated toward zero (d # 0); a divisor of at most
\* two limbs is divided by natively, a longer one by long division
WDivTrunc(x, d) ==
    Wide(x.neg # d.neg,
         IF Len(d.mag) <= 2
         THEN MagDiv(x.mag, Limb(d.mag, 1) + LimbBase * Limb(d.mag, 2))
         ELSE MagLongDiv(x.mag, d.mag))

\* 2^63 - 1, 2^63 and 2^64
MagI64Max == <<807, 775, 854, 36, 372, 223, 9>>
MagI64Min == <<808, 775, 854, 36, 372, 223, 9>>
MagTwo64 == <<616, 551, 709, 73, 744, 446, 18>>

FitsI64(x) ==
    IF x.neg THEN MagCmp(x.mag, MagI64Min) <= 0 ELSE MagCmp(x.mag, MagI64Max) <= 0

RECURSIVE MagTwo64Shl(_)
MagTwo64Shl(k) ==
    IF k = 0 THEN MagTwo64 ELSE Norm(MagMulLimbAt(MagTwo64Shl(k - 1), 2, 1, 0))

RECURSIVE MagMod64From(_, _)
MagMod64From(m, k) ==
    IF k < 0 THEN m
    ELSE LET t == MagTwo64Shl(k)
         IN  CHOOSE r \in {MagMod64From(v, k - 1) :
                            v \in {IF MagCmp(m, t) >= 0 THEN MagSub(m, t) ELSE m}} : TRUE

\* The two's-complement i64 that the exact value x wraps to, for |x| < 2^85:
\* every unchecked product of the source multiplies an i64 by a constant of
\* at most 10^6 < 2^20.
Wrap64(x) ==
    LET r == MagMod64From(x.mag, 20)
        u == IF x.neg /\ r # <<>> THEN MagSub(MagTwo64, r) ELSE r
    IN  IF MagCmp(u, MagI64Max) > 0 THEN Wide(TRUE, MagSub(MagTwo64, u)) ELSE Wide(FALSE, u)

(***************************************************************************)
(* Outcomes: a returned value, a returned anyhow error, or a panic         *)
(***************************************************************************)
Ok(v) == [kind |-> "Ok", val |-> v]

Err(e) == [kind |-> "Err", val |-> e]

Panic(e) == [kind |-> "Panic", val |-> e]

\* a plain i64 `*`: it panics on overflow in a debug build and wraps in a
\* release build
\* evaluates v once and hands the value to F
Bind(v, F(_)) == CHOOSE r \in {F(x) : x \in {v}} : TRUE

unchecked_mul(a, b) ==
    LET p == WMul(a, b)
    IN  IF FitsI64(p) THEN Ok(p)
        ELSE IF build = "debug" THEN Panic("attempt to multiply with overflow")
        ELSE Ok(Wrap64(p))

\* i64::checked_mul: None (here Err) when the product does not fit
checked_mul(a, b) ==
    LET p == WMul(a, b) IN IF FitsI64(p) THEN Ok(p) ELSE Err("None")

(***************************************************************************)
(* asset.rs: Money and Rate                                                *)
(***************************************************************************)
RATE_PRECISION == 6

RATE_SCALE == 10^RATE_PRECISION

Money_from_dollars(amount) == I(amount * 100)

Money_from_cents(amount) == I(amount)

Rate_at_rate_floor(self, money) ==
    LET tmp == checked_mul(money, self)
        q   == WDivTrunc(WDivTrunc(WAbs(tmp.val), I(RATE_SCALE)), I(100))
        exact == WMul(q, I(RATE_SCALE * 100)) = WAbs(tmp.val)
    IN  IF tmp.kind # "Ok" THEN Err("Applying rate would cause overflow")
        ELSE IF ~tmp.val.neg THEN Ok(q)
        ELSE Ok(WNeg(IF exact THEN q ELSE WAdd(q, I(1))))

Rate_at_rate(self, money) ==
    LET tmp == checked_mul(money, self)
    IN  IF tmp.kind # "Ok" THEN Err("Applying rate would cause overflow")
        ELSE Ok(WDivTrunc(WDivTrunc(tmp.val, I(RATE_SCALE)), I(100)))

Money_at_rate(self, rate) == Rate_at_rate(rate, self)

Rate_from_percent(pct) == unchecked_mul(pct, I(RATE_SCALE))

\* impl Div<i64> for Rate
Rate_div(self, rhs) ==
    IF rhs = Zero THEN Panic("attempt to divide by zero")
    ELSE IF self = Wide(TRUE, MagI64Min) /\ rhs = I(-1)
    THEN Panic("attempt to divide with overflow")
    ELSE Ok(WDivTrunc(self, rhs))

\* impl Div for Money: Rate::from_percent(self.0 * 100) / rhs.0
Money_div(self, rhs) ==
    LET scaled == unchecked_mul(self, I(100))
        lhs    == Rate_from_percent(scaled.val)
    IN  IF scaled.kind # "Ok" THEN scaled
        ELSE IF lhs.kind # "Ok" THEN lhs
        ELSE Rate_div(lhs.val, rhs)

\* Strings are sequences of one-character strings.
DigitChars == <<"0", "1", "2", "3", "4", "5", "6", "7", "8", "9">>

Digits == {DigitChars[i] : i \in 1..10}

DigitVal(c) == (CHOOSE i \in 1..10 : DigitChars[i] = c) - 1

\* char::is_whitespace, of the characters the inputs are made of
Whitespace == {" "}

RECURSIVE str_trim_start(_)
str_trim_start(s) ==
    IF s # <<>> /\ Head(s) \in Whitespace THEN str_trim_start(Tail(s)) ELSE s

RECURSIVE str_trim_end_matches(_, _)
str_trim_end_matches(s, chars) ==
    IF s # <<>> /\ s[Len(s)] \in chars
    THEN str_trim_end_matches(SubSeq(s, 1, Len(s) - 1), chars)
    ELSE s

\* str::trim
str_trim(s) == str_trim_end_matches(str_trim_start(s), Whitespace)

\* str::split_once: the parts around the first occurrence of c
str_split_once(s, c) ==
    LET i == CHOOSE i \in 1..Len(s) : s[i] = c /\ \A j \in 1..(i - 1) : s[j] # c
    IN  <<SubSeq(s, 1, i - 1), SubSeq(s, i + 1, Len(s))>>

RECURSIVE DigitsValue(_)
DigitsValue(ds) ==
    IF ds = <<>> THEN Zero
    ELSE WAdd(WMul(DigitsValue(SubSeq(ds, 1, Len(ds) - 1)), I(10)), I(DigitVal(ds[Len(ds)])))

\* i64::from_str: an optional sign, then one or more decimal digits
i64_from_str(s) ==
    IF s = <<>> THEN Err("cannot parse integer from empty string")
    ELSE LET digits == IF Head(s) \in {"+", "-"} THEN Tail(s) ELSE s
             value  == IF Head(s) = "-" THEN WNeg(DigitsValue(digits))
                       ELSE DigitsValue(digits)
         IN  IF digits = <<>> \/ \E i \in 1..Len(digits) : digits[i] \notin Digits
             THEN Err("invalid digit found in string")
             ELSE IF ~FitsI64(value)
             THEN Err("number too large or too small to fit in target type")
             ELSE Ok(value)

\* the number of digits of s from index i on
DigitRun(s, i) ==
    (CHOOSE j \in i..(Len(s) + 1) :
        /\ \A k \in i..(j - 1) : s[k] \in Digits
        /\ j <= Len(s) => s[j] \notin Digits) - i

\* f64::from_str succeeds on a decimal literal: an optional sign, digits
\* with an optional point (one digit at least), an optional exponent.  Its
\* other literals (inf, infinity, nan) hold no point and from_str parses an
\* f64 only from a string with one.
f64_from_str_ok(s) ==
    LET i0     == IF s # <<>> /\ s[1] \in {"+", "-"} THEN 2 ELSE 1
        n1     == DigitRun(s, i0)
        i1     == i0 + n1
        hasdot == i1 <= Len(s) /\ s[i1] = "."
        n2     == IF hasdot THEN DigitRun(s, i1 + 1) ELSE 0
        i2     == IF hasdot THEN i1 + 1 + n2 ELSE i1
        hasexp == i2 <= Len(s) /\ s[i2] \in {"e", "E"}
        i3     == IF ~hasexp THEN i2
                  ELSE IF i2 + 1 <= Len(s) /\ s[i2 + 1] \in {"+", "-"} THEN i2 + 2
                  ELSE i2 + 1
        n3     == IF hasexp THEN DigitRun(s, i3) ELSE 0
    IN  /\ n1 + n2 > 0
        /\ hasexp => n3 > 0
        /\ i3 + n3 = Len(s) + 1

U32Modulus == WMul(I(65536), I(65536))

\* a - b in u32, unchecked: a debug build panics when b > a, a release
\* build wraps
u32_unchecked_sub(a, b) ==
    IF a >= b THEN Ok(I(a - b))
    ELSE IF build = "debug" THEN Panic("attempt to subtract with overflow")
    ELSE Ok(WAdd(U32Modulus, I(a - b)))

RECURSIVE Pow10Wrapped(_)
Pow10Wrapped(n) ==
    IF n = 0 THEN I(1)
    ELSE Bind(WMul(Pow10Wrapped(n - 1), I(10)),
              LAMBDA p : IF FitsI64(p) THEN p ELSE Wrap64(p))

\* 10i64.pow(exp): 10^exp is a multiple of 2^64 from exp = 64 on, so the
\* wrapped power is 0 there
i64_pow10(exp) ==
    IF WLt(exp, I(19)) THEN Ok(Pow10Wrapped(CHOOSE k \in 0..18 : I(k) = exp))
    ELSE IF build = "debug" THEN Panic("attempt to multiply with overflow")
    ELSE IF WLe(I(64), exp) THEN Ok(Zero)
    ELSE Ok(Pow10Wrapped(CHOOSE k \in 19..63 : I(k) = exp))

unchecked_add(a, b) ==
    LET sum == WAdd(a, b)
    IN  IF FitsI64(sum) THEN Ok(sum)
        ELSE IF build = "debug" THEN Panic("attempt to add with overflow")
        ELSE Ok(Wrap64(sum))

\* Rate(whole * RATE_SCALE + points * 10i64.pow(RATE_PRECISION - digits))
Rate_from_parts(whole, points, digits) ==
    Bind(unchecked_mul(whole, I(RATE_SCALE)),
         LAMBDA scaled :
           IF scaled.kind # "Ok" THEN scaled
           ELSE Bind(u32_unchecked_sub(RATE_PRECISION, digits),
                     LAMBDA exp :
                       IF exp.kind # "Ok" THEN exp
                       ELSE Bind(i64_pow10(exp.val),
                                 LAMBDA pow :
                                   IF pow.kind # "Ok" THEN pow
                                   ELSE Bind(unchecked_mul(points, pow.val),
                                             LAMBDA frac :
                                               IF frac.kind # "Ok" THEN frac
                                               ELSE unchecked_add(scaled.val, frac.val)))))

\* impl FromStr for Rate
Rate_from_str(s) ==
    LET clean == str_trim(str_trim_end_matches(str_trim(s), {"%"}))
    IN  IF \E i \in 1..Len(clean) : clean[i] = "."
        THEN LET whole_str  == str_split_once(clean, ".")[1]
                 points_str == str_split_once(clean, ".")[2]
                 points     == i64_from_str(points_str)
                 whole      == i64_from_str(whole_str)
             IN  IF ~f64_from_str_ok(clean) THEN Err("invalid float literal")
                 ELSE IF points.kind # "Ok" THEN points
                 ELSE IF WLe(I(RATE_SCALE), points.val)
                 THEN Err("Found more than 6 decimal places which isn't allowed")
                 ELSE IF WLt(points.val, Zero)
                 THEN Err("Found negative number on right side of . somehow")
                 ELSE IF whole.kind # "Ok" THEN whole
                 ELSE Rate_from_parts(whole.val, points.val, Len(points_str))
        ELSE LET pct == i64_from_str(clean)
             IN  IF pct.kind # "Ok" THEN pct ELSE Rate_from_percent(pct.val)

RECURSIVE NatStr(_)
NatStr(n) ==
    IF n < 10 THEN <<DigitChars[n + 1]>>
    ELSE NatStr(n \div 10) \o <<DigitChars[(n % 10) + 1]>>

RECURSIVE MagStr(_)
MagStr(mag) ==
    IF mag = <<>> THEN <<"0">>
    ELSE IF Len(mag) = 1 THEN NatStr(mag[1])
    ELSE MagStr(SubSeq(mag, 2, Len(mag))) \o
            <<DigitChars[(mag[1] \div 100) + 1], DigitChars[((mag[1] \div 10) % 10) + 1],
              DigitChars[(mag[1] % 10) + 1]>>

\* "{}" of an i64
i64_fmt(x) == (IF x.neg THEN <<"-">> ELSE <<>>) \o MagStr(x.mag)

\* "{:02}" of an i64: zeros between the sign and the digits up to a width
\* of two characters, the sign included
i64_fmt_02(x) ==
    IF ~x.neg /\ Len(MagStr(x.mag)) < 2 THEN <<"0">> \o MagStr(x.mag) ELSE i64_fmt(x)

\* i64 %: the remainder of the division truncated toward zero
i64_wide_rem(a, b) == WSub(a, WMul(WDivTrunc(a, b), b))

\* impl Display for Rate
Rate_fmt(self) ==
    LET remainder == i64_wide_rem(self, I(RATE_SCALE))
    IN  i64_fmt(WDivTrunc(self, I(RATE_SCALE)))
            \o (IF remainder # Zero THEN <<".">> \o i64_fmt_02(remainder) ELSE <<>>)
            \o <<"%">>

(***************************************************************************)
(* time.rs: Month, Year, Time, Months, Frequency, TimeRange                *)
(***************************************************************************)
\* enum Month in declaration order, the order #[derive(Ord)] compares by
MonthNames ==
    <<"January", "February", "March", "April", "May", "June", "July",
      "August", "September", "October", "November", "December">>

Month_num(m) == (CHOOSE i \in 1..12 : MonthNames[i] = m) - 1

Month_lt(a, b) ==
    (CHOOSE i \in 1..12 : MonthNames[i] = a) < (CHOOSE i \in 1..12 : MonthNames[i] = b)

Month_next(m) ==
    CASE m = "January" -> "February"
      [] m = "February" -> "March"
      [] m = "March" -> "April"
      [] m = "April" -> "May"
      [] m = "May" -> "June"
      [] m = "June" -> "July"
      [] m = "July" -> "August"
      [] m = "August" -> "September"
      [] m = "September" -> "October"
      [] m = "October" -> "November"
      [] m = "November" -> "December"
      [] m = "December" -> "January"

Year_next(y) == y + 1

Time(y, m) == [year |-> y, month |-> m]

\* #[derive(Ord)] on Time: by year, then by month
Time_lt(a, b) == a.year < b.year \/ (a.year = b.year /\ Month_lt(a.month, b.month))

Time_le(a, b) == a = b \/ Time_lt(a, b)

\* a successor that forgets to carry the year
Time_next_no_carry(t) == [year |-> t.year, month |-> Month_next(t.month)]

Time_next(t) ==
    [year  |-> IF t.month = "December" THEN t.year + 1 ELSE t.year,
     month |-> Month_next(t.month)]

\* impl Sub for &Time: the number of months from rhs to self
Time_sub(self, rhs) ==
    (self.year * 12 + Month_num(self.month)) - (rhs.year * 12 + Month_num(rhs.month))

\* i64 `%`: the remainder has the sign of the dividend
i64_rem(a, b) == IF a >= 0 THEN a % b ELSE -((-a) % b)

Months_even_freq(months, freq) ==
    CASE freq = "Monthly" -> TRUE
      [] freq = "Quarterly" -> i64_rem(months, 3) = 0
      [] freq = "Yearly" -> i64_rem(months, 12) = 0

\* TimeRangeIter over Time: start, start.next(), ... while current < end
RECURSIVE TimeRange_iter(_, _)
TimeRange_iter(current, end) ==
    IF Time_lt(current, end)
    THEN <<current>> \o TimeRange_iter(Time_next(current), end)
    ELSE <<>>

Year_months(y) == TimeRange_iter(Time(y, "January"), Time(y + 1, "January"))

\* an iterator that also yields the end of the range
has_next_inclusive(current, end) == current <= end

\* TimeRangeIter::next yields another item while self.current < self.range.end
TimeRangeIter_has_next(current, end) == current < end

\* TimeRangeIter over Year
RECURSIVE YearRange_iter(_, _)
YearRange_iter(current, end) ==
    IF current < end THEN <<current>> \o YearRange_iter(Year_next(current), end) ELSE <<>>

(***************************************************************************)
(* lookup_table.rs: LookupTable<Time, V>; an entry is [start, end, value]  *)
(***************************************************************************)
\* every order sort_unstable_by_key(start) may leave the entries in
SortedByStart(ranges) ==
    LET n == Len(ranges)
        perms == {p \in [1..n -> 1..n] : \A i, j \in 1..n : i # j => p[i] # p[j]}
    IN  {[i \in 1..n |-> ranges[p[i]]] : p \in
           {q \in perms : \A i \in 1..n - 1 :
                ~Time_lt(ranges[q[i + 1]].start, ranges[q[i]].start)}}

RECURSIVE validate_from_gaps_only(_, _, _)
validate_from_gaps_only(ranges, i, prev) ==
    IF i > Len(ranges) THEN Ok(ranges)
    ELSE IF Time_lt(ranges[i].end, ranges[i].start) THEN Err("has end > start")
    ELSE IF ranges[i].start = ranges[i].end THEN Err("has empty range (end == start)")
    ELSE IF prev # <<>> /\ Time_lt(prev[1], ranges[i].start)
    THEN Err("Table has non-contiguious range")
    ELSE validate_from_gaps_only(ranges, i + 1, <<ranges[i].end>>)

\* the loop of validate_contiguous_ranges over the sorted entries from i on
RECURSIVE validate_from(_, _, _)
validate_from(ranges, i, prev) ==
    IF i > Len(ranges) THEN Ok(ranges)
    ELSE IF Time_lt(ranges[i].end, ranges[i].start) THEN Err("has end > start")
    ELSE IF ranges[i].start = ranges[i].end THEN Err("has empty range (end == start)")
    ELSE IF prev # <<>> /\ prev[1] # ranges[i].start THEN Err("Table has non-contiguious range")
    ELSE validate_from(ranges, i + 1, <<ranges[i].end>>)

\* validate_contiguous_ranges once the sort has produced `sorted`
validate_contiguous_ranges(ranges, sorted) ==
    IF ranges = <<>> THEN Err("Got empty ranges, which isn't allowed")
    ELSE validate_from(sorted, 1, <<>>)

LookupTable_range(table) ==
    [start |-> table[1].start, end |-> table[Len(table)].end]

RECURSIVE value_at_from_end_inclusive(_, _, _)
value_at_from_end_inclusive(table, time, i) ==
    IF i > Len(table) THEN Err("Time was not within our range")
    ELSE IF Time_le(table[i].start, time) /\ Time_le(time, table[i].end)
    THEN Ok(table[i].value)
    ELSE value_at_from_end_inclusive(table, time, i + 1)

RECURSIVE value_at_from(_, _, _)
value_at_from(table, time, i) ==
    IF i > Len(table) THEN Err("Time was not within our range")
    ELSE IF Time_le(table[i].start, time) /\ Time_lt(time, table[i].end)
    THEN Ok(table[i].value)
    ELSE value_at_from(table, time, i + 1)

LookupTable_value_at(table, time) == value_at_from(table, time, 1)

(***************************************************************************)
(* tax.rs: the per-flow TaxPolicy implementations                          *)
(*                                                                         *)
(* tax.rs and model.rs use the Result of at_rate and calculate_transaction *)
(* as the value itself and have no error return of their own, so an Err    *)
(* arriving there cannot be handed on as an error: it ends the computation *)
(* (Panic) and Model::run produces no report.                              *)
(***************************************************************************)
NoWithholding == [kind |-> "NoWithholding", rate |-> Zero]

TaxExempt == [kind |-> "TaxExempt", rate |-> Zero]

ConstantTaxPolicy(rate) == [kind |-> "ConstantTaxPolicy", rate |-> rate]

TaxTx(taxable_income, tax_withheld) ==
    [taxable_income |-> taxable_income, tax_withheld |-> tax_withheld]

TaxPolicy_tax_withheld(policy, gross) ==
    CASE policy.kind = "NoWithholding" -> Ok(TaxTx(gross, Zero))
      [] policy.kind = "TaxExempt" -> Ok(TaxTx(Zero, Zero))
      [] policy.kind = "ConstantTaxPolicy" ->
            Bind(Money_at_rate(gross, policy.rate),
                 LAMBDA w : IF w.kind = "Ok" THEN Ok(TaxTx(gross, w.val)) ELSE Panic(w.val))

calculate_tax_gross_as_net(policy, gross) ==
    Bind(TaxPolicy_tax_withheld(policy, gross),
         LAMBDA tx : IF tx.kind # "Ok" THEN tx ELSE Ok([net |-> gross, tax_tx |-> tx.val]))

TaxPolicy_calculate_tax(policy, gross) ==
    Bind(TaxPolicy_tax_withheld(policy, gross),
         LAMBDA tx :
           IF tx.kind # "Ok" THEN tx
           ELSE Ok([net |-> WSub(gross, tx.val.tax_withheld), tax_tx |-> tx.val]))

(***************************************************************************)
(* flow.rs: Flow and the FlowValue implementations                         *)
(***************************************************************************)
FixedFlow(value) == [kind |-> "FixedFlow", value |-> value]

RateFlow(rate) == [kind |-> "RateFlow", rate |-> rate]

TableFlow(table) == [kind |-> "TableFlow", table |-> table]

RateTableFlow(table) == [kind |-> "RateTableFlow", table |-> table]

Flow(name, start, end, frequency, value, tax_policy) ==
    [name |-> name, start |-> start, end |-> end, frequency |-> frequency,
     value |-> value, tax_policy |-> tax_policy]

applies_at_end_inclusive(time, flow) ==
    IF Time_lt(time, flow.start) \/ Time_lt(flow.end, time) THEN FALSE
    ELSE Months_even_freq(Time_sub(time, flow.start), flow.frequency)

applies_at_calendar(time, flow) ==
    IF Time_lt(time, flow.start) \/ Time_le(flow.end, time) THEN FALSE
    ELSE Months_even_freq(Month_num(time.month), flow.frequency)

FlowValue_applies_at(time, flow) ==
    IF Time_lt(time, flow.start) \/ Time_le(flow.end, time) THEN FALSE
    ELSE Months_even_freq(Time_sub(time, flow.start), flow.frequency)

\* category is the Money of the CategoryValue
FlowValue_value_at(time, flow, category) ==
    CASE flow.value.kind = "FixedFlow" -> Ok(flow.value.value)
      [] flow.value.kind = "RateFlow" -> Money_at_rate(category, flow.value.rate)
      [] flow.value.kind = "TableFlow" -> LookupTable_value_at(flow.value.table, time)
      [] flow.value.kind = "RateTableFlow" ->
            LET rate == LookupTable_value_at(flow.value.table, time)
            IN  IF rate.kind # "Ok" THEN rate ELSE Money_at_rate(category, rate.val)

Tx(time, amount, tax_tx) == [time |-> time, amount |-> amount, tax_tx |-> tax_tx]

Flow_calculate_transaction(flow, category, time) ==
    Bind(FlowValue_value_at(time, flow, category),
         LAMBDA gross :
           IF gross.kind # "Ok" THEN gross
           ELSE Bind(TaxPolicy_calculate_tax(flow.tax_policy, gross.val),
                     LAMBDA taxed :
                       IF taxed.kind # "Ok" THEN taxed
                       ELSE Ok(Tx(time, taxed.val.net, taxed.val.tax_tx))))

(***************************************************************************)
(* events.rs: HousePurchase and make_transaction.  An event's flows are    *)
(* pairs <<category name, flow>>.                                          *)
(***************************************************************************)
\* Money(self.0 * -1); the amounts of the events stay far inside i64
Money_negate(self) == WNeg(self)

\* a start_tx whose flow stays open until the end of the loan
start_tx_until_end(self, name, category_name, value) ==
    <<category_name,
      Flow(name, self.time_range.start, Time_next(self.time_range.end), "Monthly",
           FixedFlow(value), TaxExempt)>>

HousePurchase_start_tx(self, name, category_name, value) ==
    <<category_name,
      Flow(name, self.time_range.start, Time_next(self.time_range.start), "Monthly",
           FixedFlow(value), TaxExempt)>>

\* The f64 part of calculate_repayment, ratef * (n / (n - 1)) with
\* n = (1.0 + ratef).powi(months), converted by Rate::from_float.  A zero
\* rate gives 0.0 * inf, a NaN, and `NaN as i64` is 0; a term of no months
\* gives an infinity, and the cast saturates.  Otherwise the rounding of
\* powi is outside integer arithmetic and the result is `amortised`, a Rate
\* of AmortisedRates.
repayment_rate(monthly_rate, months, amortised) ==
    IF monthly_rate = Zero THEN Zero
    ELSE IF months = 0
    THEN (IF monthly_rate.neg THEN Wide(TRUE, MagI64Min) ELSE Wide(FALSE, MagI64Max))
    ELSE amortised

\* Rates between which r * n / (n - 1) lies for a positive monthly rate r and
\* a positive term: above r, and at most r plus 100% / months (reached by a
\* term of one month)
AmortisedRates(monthly_rate, months) ==
    IF months <= 0 THEN {monthly_rate}
    ELSE LET share == WDivTrunc(I(RATE_SCALE * 100), I(months))
         IN  {WAdd(monthly_rate, I(1)),
              WAdd(monthly_rate, WDivTrunc(share, I(2))),
              WAdd(monthly_rate, share)}

HousePurchase_calculate_repayment(loan, term, annual_rate, amortised) ==
    LET months == Time_sub(term.end, term.start)
        monthly_rate == Rate_div(annual_rate, I(12)).val
    IN  Bind(Money_at_rate(loan, repayment_rate(monthly_rate, months, amortised)),
             LAMBDA payment :
               IF payment.kind = "Ok" THEN payment
               ELSE Err("Failed to scale final result to monthly rate"))

\* a loan of the whole price
loan_value_of_price(self) == Money_negate(self.purchase_price)

\* let loan_value = self.purchase_price.negate() + self.down_payment
HousePurchase_loan_value(self) == WAdd(Money_negate(self.purchase_price), self.down_payment)

\* a loan-payment flow: FixedFlow { value: payment }
loan_payment(category_name, name, start, end, payment) ==
    <<category_name, Flow(name, start, end, "Monthly", FixedFlow(payment), TaxExempt)>>

\* impl BuildFlows for HousePurchase; `?` returns the error of
\* calculate_repayment and no flow at all
HousePurchase_build_flows(self, amortised) ==
    LET p == self.property_name
        start == Time_next(self.time_range.start)
        end == Time_next(self.time_range.end)
        setup ==
            <<HousePurchase_start_tx(self, p \o " initial mortgage setup",
                                     self.mortgage_category, HousePurchase_loan_value(self)),
              HousePurchase_start_tx(self, p \o " initial house value",
                                     self.house_value_category, self.purchase_price),
              HousePurchase_start_tx(self, p \o " down payment",
                                     self.down_payment_category,
                                     Money_negate(self.down_payment)),
              HousePurchase_start_tx(self, p \o " mortgage setup cost",
                                     self.down_payment_category,
                                     Money_negate(self.setup_cost))>>
    IN  Bind(HousePurchase_calculate_repayment(WSub(self.purchase_price, self.down_payment),
                                               self.time_range, self.mortgage_rate,
                                               amortised),
             LAMBDA payment :
               IF payment.kind # "Ok" THEN payment
               ELSE Ok(setup \o
                       <<loan_payment(self.regular_payment_category, p \o " loan payment",
                                      start, end, payment.val),
                         loan_payment(self.mortgage_category, p \o " loan payment",
                                      start, end, payment.val),
                         <<self.mortgage_category,
                           Flow(p \o " mortgage interest", start, end, "Monthly",
                                RateFlow(Rate_div(self.mortgage_rate, I(12)).val),
                                TaxExempt)>>>>))

\* start and end are both `time`
make_transaction(name, source, target, time, value) ==
    <<<<source, Flow(name \o " source", time, time, "Monthly",
                     FixedFlow(WMul(value, I(-1))), TaxExempt)>>,
      <<target, Flow(name \o " target", time, time, "Monthly",
                     FixedFlow(value), TaxExempt)>>>>

(***************************************************************************)
(* tax.rs: TaxSummary and the AnnualTaxPolicy (FixedRateTaxPolicy)         *)
(***************************************************************************)
\* BTreeMap: a function from the keys present; insert replaces the value
EmptyMap == [k \in {} |-> k]

MapInsert(m, k, v) == [x \in DOMAIN m \cup {k} |-> IF x = k THEN v ELSE m[x]]

TaxSummary_new == [net_amount |-> Zero, taxable_income |-> Zero, tax_withheld |-> Zero]

\* a summary that takes the net amount for the taxable income
TaxSummary_apply_tx_net_as_taxable(self, tx, net) ==
    [net_amount     |-> WAdd(self.net_amount, net),
     taxable_income |-> WAdd(self.taxable_income, net),
     tax_withheld   |-> WAdd(self.tax_withheld, tx.tax_withheld)]

TaxSummary_apply_tx(self, tx, net) ==
    [net_amount     |-> WAdd(self.net_amount, net),
     taxable_income |-> WAdd(self.taxable_income, tx.taxable_income),
     tax_withheld   |-> WAdd(self.tax_withheld, tx.tax_withheld)]

FixedRateTaxPolicy(rate, deductions) == [rate |-> rate, deductions |-> deductions]

FixedRateTaxPolicy_calculate_owed(self, taxable_income) ==
    Bind(Money_at_rate(taxable_income, self.rate),
         LAMBDA owed : IF owed.kind = "Ok" THEN owed ELSE Panic(owed.val))

\* the income above the deductions, not floored at zero
taxable_income_unfloored(self, summary) == WSub(summary.taxable_income, self.deductions)

FixedRateTaxPolicy_calculate_taxable_income(self, summary) ==
    WMax(WSub(summary.taxable_income, self.deductions), Money_from_dollars(0))

tax_flow_same_year(year, delta) ==
    Flow("Tax adjustment", Time(year, "April"), Time(year, "May"), "Monthly",
         FixedFlow(delta), TaxExempt)

tax_flow_taxable(year, delta) ==
    Flow("Tax adjustment", Time(Year_next(year), "April"), Time(Year_next(year), "May"),
         "Monthly", FixedFlow(delta), NoWithholding)

\* the Flow built by calculate_adjustment
tax_flow(year, delta) ==
    Flow("Tax adjustment", Time(Year_next(year), "April"), Time(Year_next(year), "May"),
         "Monthly", FixedFlow(delta), TaxExempt)

adjustment_delta_reversed(withheld, tax_owed) == WSub(tax_owed, withheld)

\* let delta = summary.tax_withheld - tax_owed
adjustment_delta(withheld, tax_owed) == WSub(withheld, tax_owed)

effective_rate_unguarded(tax_owed, taxable_income) == Money_div(tax_owed, taxable_income)

\* the effective_rate field of the TaxAdjustment
adjustment_effective_rate(tax_owed, taxable_income) ==
    IF taxable_income = Money_from_dollars(0)
    THEN Rate_from_percent(I(0))
    ELSE Money_div(tax_owed, taxable_income)

AnnualTaxPolicy_calculate_adjustment(self, year, summary) ==
    Bind(FixedRateTaxPolicy_calculate_taxable_income(self, summary),
      LAMBDA taxable_income :
        Bind(FixedRateTaxPolicy_calculate_owed(self, taxable_income),
          LAMBDA tax_owed :
            IF tax_owed.kind # "Ok" THEN tax_owed
            ELSE Bind(<<adjustment_delta(summary.tax_withheld, tax_owed.val),
                        adjustment_effective_rate(tax_owed.val, taxable_income)>>,
                   LAMBDA de :
                     LET delta == de[1]
                         effective_rate == de[2]
                     IN  IF effective_rate.kind # "Ok" THEN effective_rate
                         ELSE Ok([adjustment |-> [owed |-> tax_owed.val,
                                                  withheld |-> summary.tax_withheld,
                                                  delta |-> delta,
                                                  effective_rate |-> effective_rate.val],
                                  flow |-> tax_flow(year, delta)]))))

(***************************************************************************)
(* asset.rs: Category and CategoryValue; model.rs: CategoryModel and Model *)
(***************************************************************************)
\* impl Sum for Money
RECURSIVE Money_sum(_)
Money_sum(ms) == IF ms = <<>> THEN Zero ELSE WAdd(ms[1], Money_sum(Tail(ms)))

\* Category::value: the CategoryValue of a category [name, assets]
Category_value(category) == [name |-> category.name, value |-> Money_sum(category.assets)]

\* self.1 = self.1 + tx.amount; the sums of the simulated runs stay far inside i64
CategoryValue_apply_tx(value, tx) == WAdd(value, tx.amount)

\* a month's map that keeps the first transaction recorded under a name
RECURSIVE months_txns_first_wins(_, _, _, _, _)
months_txns_first_wins(flow_list, i, category, time, months_txns) ==
    IF i > Len(flow_list) THEN Ok(months_txns)
    ELSE IF ~FlowValue_applies_at(time, flow_list[i])
            \/ flow_list[i].name \in DOMAIN months_txns
    THEN months_txns_first_wins(flow_list, i + 1, category, time, months_txns)
    ELSE Bind(Flow_calculate_transaction(flow_list[i], category, time),
              LAMBDA tx :
                IF tx.kind # "Ok"
                THEN Panic([flow |-> flow_list[i].name, time |-> time, error |-> tx.val])
                ELSE Bind(MapInsert(months_txns, flow_list[i].name, tx.val),
                          LAMBDA inserted :
                            months_txns_first_wins(flow_list, i + 1, category, time,
                                                   inserted)))

\* a month's map that holds the first flow of the list that applies, alone
RECURSIVE months_txns_first_only(_, _, _, _, _)
months_txns_first_only(flow_list, i, category, time, months_txns) ==
    IF i > Len(flow_list) THEN Ok(months_txns)
    ELSE IF ~FlowValue_applies_at(time, flow_list[i])
    THEN months_txns_first_only(flow_list, i + 1, category, time, months_txns)
    ELSE Bind(Flow_calculate_transaction(flow_list[i], category, time),
              LAMBDA tx :
                IF tx.kind # "Ok"
                THEN Panic([flow |-> flow_list[i].name, time |-> time, error |-> tx.val])
                ELSE Ok(MapInsert(months_txns, flow_list[i].name, tx.val)))

\* the loop over self.flows for one month (model.rs:156-161); an Err from
\* calculate_transaction ends the run
RECURSIVE months_txns_from(_, _, _, _, _)
months_txns_from(flow_list, i, category, time, months_txns) ==
    IF i > Len(flow_list) THEN Ok(months_txns)
    ELSE IF ~FlowValue_applies_at(time, flow_list[i])
    THEN months_txns_from(flow_list, i + 1, category, time, months_txns)
    ELSE Bind(Flow_calculate_transaction(flow_list[i], category, time),
              LAMBDA tx :
                IF tx.kind # "Ok"
                THEN Panic([flow |-> flow_list[i].name, time |-> time, error |-> tx.val])
                ELSE Bind(MapInsert(months_txns, flow_list[i].name, tx.val),
                          LAMBDA inserted :
                            months_txns_from(flow_list, i + 1, category, time, inserted)))

\* for tx in months_txns.values() { category_value.apply_tx(tx) }
RECURSIVE apply_all(_, _, _)
apply_all(value, months_txns, names) ==
    IF names = {} THEN value
    ELSE Bind(CHOOSE n \in names : TRUE,
              LAMBDA n :
                Bind(<<CategoryValue_apply_tx(value, months_txns[n]), names \ {n}>>,
                     LAMBDA applied : apply_all(applied[1], months_txns, applied[2])))

\* a month in which every flow that applies is applied as soon as it is valued
RECURSIVE run_month_sequential_from(_, _, _, _, _)
run_month_sequential_from(flow_list, i, value, time, months_txns) ==
    IF i > Len(flow_list) THEN Ok([value |-> value, transactions |-> months_txns])
    ELSE IF ~FlowValue_applies_at(time, flow_list[i])
    THEN run_month_sequential_from(flow_list, i + 1, value, time, months_txns)
    ELSE Bind(Flow_calculate_transaction(flow_list[i], value, time),
              LAMBDA tx :
                IF tx.kind # "Ok"
                THEN Panic([flow |-> flow_list[i].name, time |-> time, error |-> tx.val])
                ELSE Bind(<<CategoryValue_apply_tx(value, tx.val),
                            MapInsert(months_txns, flow_list[i].name, tx.val)>>,
                          LAMBDA applied :
                            run_month_sequential_from(flow_list, i + 1, applied[1], time,
                                                      applied[2])))

run_month_sequential(flow_list, value, time) ==
    run_month_sequential_from(flow_list, 1, value, time, EmptyMap)

\* a month in which every valued transaction is applied, replaced ones too
RECURSIVE apply_each_from(_, _, _, _, _)
apply_each_from(flow_list, i, category, time, value) ==
    IF i > Len(flow_list) THEN value
    ELSE IF ~FlowValue_applies_at(time, flow_list[i])
    THEN apply_each_from(flow_list, i + 1, category, time, value)
    ELSE Bind(CategoryValue_apply_tx(value,
                  Flow_calculate_transaction(flow_list[i], category, time).val),
              LAMBDA applied : apply_each_from(flow_list, i + 1, category, time, applied))

run_month_apply_each(flow_list, value, time) ==
    Bind(months_txns_from(flow_list, 1, value, time, EmptyMap),
         LAMBDA txns :
           IF txns.kind # "Ok" THEN txns
           ELSE Ok([value |-> apply_each_from(flow_list, 1, value, time, value),
                    transactions |-> txns.val]))

\* one iteration of the loop over year.months() (model.rs:154-172): the
\* MonthlyReport of the month, or the failure
CategoryModel_run_month(flow_list, value, time) ==
    Bind(months_txns_from(flow_list, 1, value, time, EmptyMap),
         LAMBDA txns :
           IF txns.kind # "Ok" THEN txns
           ELSE Ok([value |-> apply_all(value, txns.val, DOMAIN txns.val),
                    transactions |-> txns.val]))

RECURSIVE CategoryModel_run_from(_, _, _, _, _)
CategoryModel_run_from(flow_list, value, times, i, all_transactions) ==
    IF i > Len(times) THEN Ok([value |-> value, all_transactions |-> all_transactions])
    ELSE Bind(CategoryModel_run_month(flow_list, value, times[i]),
              LAMBDA report :
                IF report.kind # "Ok" THEN report
                ELSE Bind(MapInsert(all_transactions, times[i].month, report.val),
                          LAMBDA inserted :
                            CategoryModel_run_from(flow_list, report.val.value, times, i + 1,
                                                   inserted)))

\* CategoryModel::run: the category value after the year and the
\* BTreeMap<Month, MonthlyReport>
CategoryModel_run(flow_list, value, year) ==
    CategoryModel_run_from(flow_list, value, Year_months(year), 1, EmptyMap)

\* the loops of run_year that feed every transaction to tax_summary.apply_tx
RECURSIVE apply_tx_all(_, _, _)
apply_tx_all(tax_summary, model_output, keys) ==
    IF keys = {} THEN tax_summary
    ELSE Bind(CHOOSE k \in keys : TRUE,
              LAMBDA k :
                Bind(<<TaxSummary_apply_tx(tax_summary,
                                           model_output[k[1]].transactions[k[2]].tax_tx,
                                           model_output[k[1]].transactions[k[2]].amount),
                       keys \ {k}>>,
                     LAMBDA applied : apply_tx_all(applied[1], model_output, applied[2])))

TxKeys(model_output) ==
    UNION {{<<m, n>> : n \in DOMAIN model_output[m].transactions} : m \in DOMAIN model_output}

\* a year that runs a category without an entry as one with no flows
RECURSIVE run_year_from_all(_, _, _, _, _, _)
run_year_from_all(year, values, i, flow_map, summary, tax_summary) ==
    IF i > Len(values)
    THEN Ok([category_values |-> values, summary |-> summary, tax_summary |-> tax_summary])
    ELSE Bind(CategoryModel_run(IF values[i].name \in DOMAIN flow_map
                                THEN flow_map[values[i].name] ELSE <<>>,
                                values[i].value, year),
              LAMBDA model_output :
                IF model_output.kind # "Ok" THEN model_output
                ELSE Bind(<<[values EXCEPT ![i].value = model_output.val.value],
                            MapInsert(summary, values[i].name,
                                      model_output.val.all_transactions),
                            apply_tx_all(tax_summary, model_output.val.all_transactions,
                                         TxKeys(model_output.val.all_transactions))>>,
                          LAMBDA next :
                            run_year_from_all(year, next[1], i + 1, flow_map, next[2],
                                              next[3])))

\* the loop over category_values of run_year (model.rs:84-107)
RECURSIVE run_year_from(_, _, _, _, _, _)
run_year_from(year, values, i, flow_map, summary, tax_summary) ==
    IF i > Len(values)
    THEN Ok([category_values |-> values, summary |-> summary, tax_summary |-> tax_summary])
    ELSE IF values[i].name \notin DOMAIN flow_map
    THEN run_year_from(year, values, i + 1, flow_map, summary, tax_summary)
    ELSE Bind(CategoryModel_run(flow_map[values[i].name], values[i].value, year),
              LAMBDA model_output :
                IF model_output.kind # "Ok" THEN model_output
                ELSE Bind(<<[values EXCEPT ![i].value = model_output.val.value],
                            MapInsert(summary, values[i].name,
                                      model_output.val.all_transactions),
                            apply_tx_all(tax_summary, model_output.val.all_transactions,
                                         TxKeys(model_output.val.all_transactions))>>,
                          LAMBDA next :
                            run_year_from(year, next[1], i + 1, flow_map, next[2], next[3])))

\* the new flow put in front of the list
push_flow_front(flow_map, category, flow) ==
    IF category \in DOMAIN flow_map
    THEN [flow_map EXCEPT ![category] = <<flow>> \o @]
    ELSE MapInsert(flow_map, category, <<flow>>)

\* flows.entry(tax_category).or_insert_with(Vec::new).push(tax_flow)
push_flow(flow_map, category, flow) ==
    IF category \in DOMAIN flow_map
    THEN [flow_map EXCEPT ![category] = Append(@, flow)]
    ELSE MapInsert(flow_map, category, <<flow>>)

\* Model::run_year: the YearlyReport with the category values and the flows
\* map it leaves behind, or the failure
Model_run_year(year, values, flow_map, tax_policy, tax_category) ==
    Bind(run_year_from(year, values, 1, flow_map, EmptyMap, TaxSummary_new),
         LAMBDA r :
           IF r.kind # "Ok" THEN r
           ELSE Bind(AnnualTaxPolicy_calculate_adjustment(tax_policy, year, r.val.tax_summary),
                     LAMBDA adj :
                       IF adj.kind # "Ok" THEN adj
                       ELSE Ok([category_values |-> r.val.category_values,
                                flows |-> push_flow(flow_map, tax_category, adj.val.flow),
                                report |-> [category_summary |-> r.val.summary,
                                            tax_summary |-> r.val.tax_summary,
                                            tax_adjustment |-> adj.val.adjustment]])))

CategoryNames(categories) == {categories[i].name : i \in 1..Len(categories)}

validate_tax_category_only(model) ==
    IF model.tax_category \notin CategoryNames(model.categories)
    THEN Err("Tax category was not found in provided categories")
    ELSE Ok("valid")

Model_validate(model) ==
    IF model.tax_category \notin CategoryNames(model.categories)
    THEN Err("Tax category was not found in provided categories")
    ELSE IF \E cat_name \in DOMAIN model.flows : cat_name \notin CategoryNames(model.categories)
    THEN Err("Flows found with unknown cateogry")
    ELSE Ok("valid")

(***************************************************************************)
(* Specifications of the pure operations.  Init draws the arguments, one   *)
(* action per operation applies it and records the outcome in ret.         *)
(***************************************************************************)
Pending == [kind |-> "Pending", val |-> "none"]

NoFailure == [kind |-> "None", val |-> "none"]

SimIdle ==
    /\ pc = "idle"
    /\ input = <<>>
    /\ flows = <<>>
    /\ category_values = <<>>
    /\ cur_year = 0
    /\ out = <<>>
    /\ failure = NoFailure

Builds == {"debug", "release"}

\* 10^11 cents, 2^63 - 1 and -2^63
Billion == Wide(FALSE, <<0, 0, 0, 100>>)

I64Max == Wide(FALSE, MagI64Max)

I64Min == Wide(TRUE, MagI64Min)

ArithMoney ==
    {I(0), I(1), I(-1), I(99), I(100), I(-100), I(200), I(-250), I(2000), I(300),
     I(100000), I(-1234567), Billion, WNeg(Billion), WMul(Billion, I(3)), I64Max, I64Min}

ArithRate ==
    {I(0), I(1), I(100000), I(-100000), I(20000000), I(-20000000), I(33333333),
     I(-35000000), I(100000000), I(90000000), WMul(Billion, I(5)), I64Max}

InitArith ==
    /\ build \in Builds
    /\ call \in [op : {"Rate::at_rate", "Money::at_rate"}, money : ArithMoney, rate : ArithRate]
              \cup [op : {"Money::div"}, money : ArithMoney, rhs : ArithMoney \ {I(0)}]
    /\ ret = Pending
    /\ tbl = <<>>
    /\ SimIdle

Rate_at_rate_call ==
    /\ call.op = "Rate::at_rate"
    /\ ret = Pending
    /\ ret' = Rate_at_rate(call.rate, call.money)
    /\ UNCHANGED <<build, call, tbl, simVars>>

Money_at_rate_call ==
    /\ call.op = "Money::at_rate"
    /\ ret = Pending
    /\ ret' = Money_at_rate(call.money, call.rate)
    /\ UNCHANGED <<build, call, tbl, simVars>>

Money_div_call ==
    /\ call.op = "Money::div"
    /\ ret = Pending
    /\ ret' = Money_div(call.money, call.rhs)
    /\ UNCHANGED <<build, call, tbl, simVars>>

NextArith == Rate_at_rate_call \/ Money_at_rate_call \/ Money_div_call

SpecArith == InitArith /\ [][NextArith]_vars

\* ---- applies_at ----
FirstYear == 2020

NumYears == 3

Frequencies == {"Monthly", "Quarterly", "Yearly"}

MonthSet == {MonthNames[i] : i \in 1..12}

FlowTimes == {Time(y, m) : y \in {FirstYear, FirstYear + 1}, m \in MonthSet}

\* the window ends of the flows applies_at is tried on
WindowTimes ==
    {Time(FirstYear, "February"), Time(FirstYear, "November"), Time(FirstYear, "December"),
     Time(FirstYear + 1, "January"), Time(FirstYear + 1, "February"),
     Time(FirstYear + 1, "May"), Time(FirstYear + 1, "December")}

InitFlow ==
    /\ build \in Builds
    /\ call \in [op : {"applies_at"}, time : FlowTimes,
                 flow : {Flow("f", s, e, f, FixedFlow(I(100)), TaxExempt) :
                           s \in WindowTimes, e \in WindowTimes, f \in Frequencies}]
    /\ ret = Pending
    /\ tbl = <<>>
    /\ SimIdle

applies_at_call ==
    /\ call.op = "applies_at"
    /\ ret = Pending
    /\ ret' = Ok(FlowValue_applies_at(call.time, call.flow))
    /\ UNCHANGED <<build, call, tbl, simVars>>

NextFlow == applies_at_call

SpecFlow == InitFlow /\ [][NextFlow]_vars

\* ---- LookupTable ----
MaxEntries == 3

TablePoints ==
    {Time(FirstYear, "November"), Time(FirstYear, "December"),
     Time(FirstYear + 1, "January"), Time(FirstYear + 1, "March")}

QueryTimes ==
    TablePoints \cup {Time(FirstYear, "October"), Time(FirstYear + 1, "February"),
                      Time(FirstYear + 1, "April")}

\* entry i of the input carries the value i
TableInput(se) == [i \in DOMAIN se |-> [start |-> se[i][1], end |-> se[i][2], value |-> i]]

InitTable ==
    /\ build \in Builds
    /\ \E n \in 0..MaxEntries : \E se \in [1..n -> TablePoints \X TablePoints] :
          call = [op |-> "LookupTable::new", ranges |-> TableInput(se),
                  time |-> Time(FirstYear, "October")]
    /\ ret = Pending
    /\ tbl = <<>>
    /\ SimIdle

LookupTable_new ==
    /\ call.op = "LookupTable::new"
    /\ ret = Pending
    /\ \E sorted \in SortedByStart(call.ranges) :
         LET v == validate_contiguous_ranges(call.ranges, sorted)
         IN  /\ ret' = IF v.kind = "Ok" THEN Ok("LookupTable") ELSE v
             /\ tbl' = IF v.kind = "Ok" THEN v.val ELSE <<>>
    /\ UNCHANGED <<build, call, simVars>>

value_at_call ==
    /\ tbl # <<>>
    /\ \E t \in QueryTimes :
         /\ call' = [call EXCEPT !.op = "value_at", !.time = t]
         /\ ret' = LookupTable_value_at(tbl, t)
    /\ UNCHANGED <<build, tbl, simVars>>

range_call ==
    /\ tbl # <<>>
    /\ call' = [call EXCEPT !.op = "range"]
    /\ ret' = Ok(LookupTable_range(tbl))
    /\ UNCHANGED <<build, tbl, simVars>>

NextTable == LookupTable_new \/ value_at_call \/ range_call

SpecTable == InitTable /\ [][NextTable]_vars

\* the amounts calculate_tax and calculate_adjustment are tried on
TaxMoney ==
    {I(0), I(1), I(-1), I(99), I(299999), I(300000), I(300001), I(1000000), I(-250000),
     I(1234567), Billion, WMul(Billion, I(3))}

TaxRates == {I(0), I(1), I(10000000), I(33333333), I(35000000), I(-20000000)}

InitTax ==
    /\ build \in Builds
    /\ call \in [op : {"calculate_tax"}, gross : TaxMoney,
                 policy : {NoWithholding, TaxExempt} \cup {ConstantTaxPolicy(r) : r \in TaxRates}]
           \cup [op : {"calculate_adjustment"}, year : {FirstYear, FirstYear + 1},
                 policy : {FixedRateTaxPolicy(r, d) :
                             r \in {I(0), I(33333333), I(35000000), I(-20000000)},
                             d \in {I(0), I(300000)}},
                 summary : [net_amount : {I(1234567)}, taxable_income : TaxMoney,
                            tax_withheld : {I(0), I(99), I(1000000), I(-250000)}]]
    /\ ret = Pending
    /\ tbl = <<>>
    /\ SimIdle

calculate_tax_call ==
    /\ call.op = "calculate_tax"
    /\ ret = Pending
    /\ ret' = TaxPolicy_calculate_tax(call.policy, call.gross)
    /\ UNCHANGED <<build, call, tbl, simVars>>

calculate_adjustment_call ==
    /\ call.op = "calculate_adjustment"
    /\ ret = Pending
    /\ ret' = AnnualTaxPolicy_calculate_adjustment(call.policy, call.year, call.summary)
    /\ UNCHANGED <<build, call, tbl, simVars>>

NextTax == calculate_tax_call \/ calculate_adjustment_call

SpecTax == InitTax /\ [][NextTax]_vars

\* ---- Time: successor, difference and order ----
InitTime ==
    /\ build \in Builds
    /\ call \in [op : {"Time::sub"}, a : FlowTimes, b : FlowTimes]
           \cup [op : {"Time::next"}, t : FlowTimes]
    /\ ret = Pending
    /\ tbl = <<>>
    /\ SimIdle

\* &a - &b
Time_sub_call ==
    /\ call.op = "Time::sub"
    /\ ret = Pending
    /\ ret' = Ok(Time_sub(call.a, call.b))
    /\ UNCHANGED <<build, call, tbl, simVars>>

\* t.next()
Time_next_call ==
    /\ call.op = "Time::next"
    /\ ret = Pending
    /\ ret' = Ok(Time_next(call.t))
    /\ UNCHANGED <<build, call, tbl, simVars>>

NextTime == Time_sub_call \/ Time_next_call

SpecTime == InitTime /\ [][NextTime]_vars

\* ---- Rate as text: Display and FromStr ----
MaxFracDigits == 7

\* percent values around zero, with and without a fraction
RateWholes == {-10, -1, 0, 1, 12, 100}

RateFractions == {0, 1, 5, 10000, 50000, 100000, 345678, 500000, 999999}

\* a sign, a whole part, a point and fractional digits, a percent sign
NumericText(sign, whole, frac, tail) == sign \o whole \o <<".">> \o frac \o tail

InitRate ==
    /\ build \in Builds
    /\ \/ \E w \in RateWholes, f \in RateFractions, neg \in BOOLEAN :
             call = [op |-> "Rate::fmt",
                     rate |-> I(IF neg \/ w < 0 THEN w * RATE_SCALE - f
                                ELSE w * RATE_SCALE + f)]
       \/ \E sign \in {<<>>, <<"-">>},
             whole \in {<<"0">>, <<"1">>, <<"1", "0">>},
             tail \in {<<>>, <<"%">>},
             n \in 1..MaxFracDigits :
             \E frac \in [1..n -> {"0", "1"}] \cup
                         {<<"5">>, <<"0", "5">>, <<"9", "9", "9", "9", "9", "9">>,
                          <<"1", "2", "3", "4", "5", "6", "7">>} :
                 call = [op |-> "Rate::from_str", of |-> <<>>,
                         s |-> NumericText(sign, whole, frac, tail)]
       \/ \E lead \in {<<>>, <<" ">>},
             sign \in {<<>>, <<"-">>, <<"+">>, <<"-", " ">>},
             whole \in {<<>>, <<"0">>, <<"1", "0">>, <<"a">>, <<"0", "a">>},
             rest \in {<<>>, <<".">>, <<".", "5">>, <<".", "-", "1">>, <<".", "+", "1">>,
                       <<".", "a">>, <<".", "0", "a">>, <<".", "5", "e", "1">>,
                       <<".", "1", ".", "5">>, <<"-">>, <<"%", ".", "0">>,
                       <<".", "0", "0", "0", "0", "0", "0", "1">>},
             tail \in {<<>>, <<"%">>, <<" ", "%", " ">>, <<"%", "%">>, <<"%", "0">>} :
             call = [op |-> "Rate::from_str", of |-> <<>>,
                     s |-> lead \o sign \o whole \o rest \o tail]
    /\ ret = Pending
    /\ tbl = <<>>
    /\ SimIdle

\* format!("{}", rate)
Rate_fmt_call ==
    /\ call.op = "Rate::fmt"
    /\ ret = Pending
    /\ ret' = Ok(Rate_fmt(call.rate))
    /\ UNCHANGED <<build, call, tbl, simVars>>

\* the text Display produced is handed to str::parse::<Rate>
Rate_reparse ==
    /\ call.op = "Rate::fmt"
    /\ ret.kind = "Ok"
    /\ call' = [op |-> "Rate::from_str", of |-> <<call.rate>>, s |-> ret.val]
    /\ ret' = Pending
    /\ UNCHANGED <<build, tbl, simVars>>

\* s.parse::<Rate>()
Rate_from_str_call ==
    /\ call.op = "Rate::from_str"
    /\ ret = Pending
    /\ ret' = Rate_from_str(call.s)
    /\ UNCHANGED <<build, call, tbl, simVars>>

NextRate == Rate_fmt_call \/ Rate_reparse \/ Rate_from_str_call

SpecRate == InitRate /\ [][NextRate]_vars

(***************************************************************************)
(* Claims about the pure operations                                        *)
(***************************************************************************)
\* the position of a Time on the month line, and the k-th successor
TimeOrd(t) == t.year * 12 + Month_num(t.month)

\* the time k months after t
TimeAfter(t, k) ==
    LET n == Month_num(t.month) + k
    IN  Time(t.year + n \div 12, MonthNames[(n % 12) + 1])

Period(freq) ==
    CASE freq = "Monthly" -> 1 [] freq = "Quarterly" -> 3 [] freq = "Yearly" -> 12

MaxSpan == 12 * NumYears

\* C24: a - b is the difference of year * 12 + month index, so a - b is
\* -(b - a) and is 0 exactly when a = b; t.next() is one month after t and
\* above t in the (year, month) order, December included.
C24_TimeArithmetic ==
    /\ (call.op = "Time::sub" /\ ret # Pending) =>
          /\ ret.val = (call.a.year * 12 + Month_num(call.a.month))
                          - (call.b.year * 12 + Month_num(call.b.month))
          /\ ret.val = -Time_sub(call.b, call.a)
          /\ (ret.val = 0) <=> (call.a = call.b)
    /\ (call.op = "Time::next" /\ ret # Pending) =>
          /\ Time_sub(ret.val, call.t) = 1
          /\ Time_lt(call.t, ret.val)
          /\ ~Time_lt(ret.val, call.t)

\* the successor of a December is the January of the next year
C24_Witness ==
    /\ call.op = "Time::next"
    /\ ret # Pending
    /\ call.t = Time(FirstYear, "December")
    /\ ret.val = Time(FirstYear + 1, "January")

\* C6: applies_at(time, flow) is true exactly when time is k successor steps
\* after flow.start, k a multiple of the period of the frequency (1, 3, 12),
\* and flow.end lies strictly after time; in particular never when
\* start >= end, and the period counts from the start month of the flow.
C6_AppliesAt ==
    (call.op = "applies_at" /\ ret # Pending) =>
        ret.val =
           (\E k \in 0..MaxSpan :
               /\ TimeAfter(call.flow.start, k) = call.time
               /\ k % Period(call.flow.frequency) = 0
               /\ \E j \in 1..MaxSpan : TimeAfter(call.time, j) = call.flow.end)

\* a quarterly flow started in February applying in May of the next year,
\* fifteen months on: a month that is no calendar quarter
C6_Witness ==
    /\ call.op = "applies_at" /\ ret # Pending
    /\ call.flow.frequency = "Quarterly"
    /\ call.flow.start = Time(FirstYear, "February")
    /\ call.time = Time(FirstYear + 1, "May")
    /\ call.flow.end = Time(FirstYear + 1, "December")
    /\ ret.val = TRUE

Perms(n) == {p \in [1..n -> 1..n] : \A i, j \in 1..n : i # j => p[i] # p[j]}

\* the entries are non-empty, each has start < end, and in some order each
\* entry starts where the one before it ends
ValidRanges(rs) ==
    /\ rs # <<>>
    /\ \A i \in 1..Len(rs) : TimeOrd(rs[i].start) < TimeOrd(rs[i].end)
    /\ \E p \in Perms(Len(rs)) :
         \A i \in 1..Len(rs) - 1 : rs[p[i + 1]].start = rs[p[i]].end

\* C7: LookupTable::new succeeds if and only if the entries, in any input
\* order, are non-empty, each with start < end, and chain without gap or
\* overlap once sorted by start; otherwise it returns an error.  Every
\* constructed table holds the entries given, sorted by start and contiguous.
C7_NewValidates ==
    ret # Pending =>
        /\ (tbl # <<>>) <=> ValidRanges(call.ranges)
        /\ (call.op = "LookupTable::new" /\ tbl = <<>>) => ret.kind = "Err"
        /\ tbl # <<>> =>
             /\ Len(tbl) = Len(call.ranges)
             /\ {tbl[i] : i \in 1..Len(tbl)} = {call.ranges[i] : i \in 1..Len(tbl)}
             /\ \A i \in 1..Len(tbl) : TimeOrd(tbl[i].start) < TimeOrd(tbl[i].end)
             /\ \A i \in 1..Len(tbl) - 1 :
                  /\ TimeOrd(tbl[i].start) < TimeOrd(tbl[i + 1].start)
                  /\ tbl[i + 1].start = tbl[i].end

\* three entries given out of order are accepted and stored sorted
C7_Witness ==
    /\ call.op = "LookupTable::new" /\ ret = Ok("LookupTable")
    /\ Len(tbl) = 3
    /\ tbl[1] = call.ranges[3] /\ tbl[2] = call.ranges[1] /\ tbl[3] = call.ranges[2]

\* C8: value_at(t) returns the value of the one entry with start <= t < end
\* when t lies in [minimum start, maximum end), and an error otherwise;
\* range() is (minimum start, maximum end).
C8_ValueAt ==
    LET n    == Len(tbl)
        lo   == CHOOSE a \in {TimeOrd(tbl[i].start) : i \in 1..n} :
                    \A i \in 1..n : a <= TimeOrd(tbl[i].start)
        hi   == CHOOSE b \in {TimeOrd(tbl[i].end) : i \in 1..n} :
                    \A i \in 1..n : b >= TimeOrd(tbl[i].end)
        t    == TimeOrd(call.time)
        hits == {i \in 1..n : TimeOrd(tbl[i].start) <= t /\ t < TimeOrd(tbl[i].end)}
    IN  /\ call.op = "value_at" =>
              IF lo <= t /\ t < hi
              THEN Cardinality(hits) = 1 /\ \A i \in hits : ret = Ok(tbl[i].value)
              ELSE ret.kind = "Err"
        /\ call.op = "range" =>
              /\ ret.kind = "Ok"
              /\ TimeOrd(ret.val.start) = lo
              /\ TimeOrd(ret.val.end) = hi

\* a lookup at the first month of the last of three entries returns that
\* entry's value, not the value of the entry that ends there
C8_Witness ==
    /\ call.op = "value_at"
    /\ Len(tbl) = 3
    /\ call.time = tbl[3].start
    /\ ret = Ok(tbl[3].value)

\* the products the operation of `call` computes all fit an i64
ProductsFit ==
    IF call.op = "Money::div"
    THEN /\ FitsI64(WMul(call.money, I(100)))
         /\ FitsI64(WMul(WMul(call.money, I(100)), I(RATE_SCALE)))
    ELSE FitsI64(WMul(call.money, call.rate))

\* C9: whenever a product computed inside at_rate or inside Money / Money
\* does not fit an i64, the operation returns an error (never a value).
C9_OverflowIsError ==
    (call.op \in {"Rate::at_rate", "Money::at_rate", "Money::div"} /\ ret # Pending
        /\ ~ProductsFit) => ret.kind = "Err"

\* the part of C9 that the code keeps: at_rate returns an error on overflow
C9_AtRateOverflowIsError ==
    (call.op \in {"Rate::at_rate", "Money::at_rate"} /\ ret # Pending /\ ~ProductsFit)
        => ret.kind = "Err"

\* q is p / d truncated toward zero
IsTruncatedQuotient(q, p, d) ==
    /\ WLe(WMul(WAbs(q), d), WAbs(p))
    /\ WLt(WAbs(p), WMul(WAdd(WAbs(q), I(1)), d))
    /\ q = Zero \/ q.neg = p.neg

\* C10: when c * r fits an i64, at_rate returns exactly c * r / 10^8
\* truncated toward zero, for either sign of c and r, from Rate::at_rate and
\* from Money::at_rate alike; $2 at 20% is 40 cents, $20 at 0.1% is 2 cents.
C10_AtRateTruncates ==
    (call.op \in {"Rate::at_rate", "Money::at_rate"} /\ ret # Pending /\ ProductsFit) =>
        /\ ret.kind = "Ok"
        /\ IsTruncatedQuotient(ret.val, WMul(call.money, call.rate), I(100000000))
        /\ (call.money = I(200) /\ call.rate = I(20000000)) => ret.val = I(40)
        /\ (call.money = I(2000) /\ call.rate = I(100000)) => ret.val = I(2)

\* a negative amount at a rate that does not divide it: -$12,345.67 at
\* 33.333333% is -411,522 cents, the quotient -411,522.29... cut toward zero
C10_Witness ==
    /\ call.op = "Money::at_rate" /\ ret # Pending
    /\ call.money = I(-1234567) /\ call.rate = I(33333333)
    /\ ret = Ok(I(-411522))

\* q is p / d truncated toward zero, for a divisor of either sign
IsTruncatedDiv(q, p, d) ==
    /\ WLe(WMul(WAbs(q), WAbs(d)), WAbs(p))
    /\ WLt(WAbs(p), WMul(WAdd(WAbs(q), I(1)), WAbs(d)))
    /\ q = Zero \/ q.neg = (p.neg # d.neg)

\* C11: for a cents divided by b cents (b # 0), Money / Money returns the
\* Rate of raw value a * 10^8 / b truncated toward zero.
C11_DivExact ==
    (call.op = "Money::div" /\ ret # Pending) =>
        /\ ret.kind = "Ok"
        /\ IsTruncatedDiv(ret.val, WMul(call.money, I(100000000)), call.rhs)

\* the part of C11 that the code keeps: the quotient is exact whenever the
\* scaled numerator fits an i64; $1 / $3 is 33333333 and 1 cent / $1 is 1%
C11_DivExactWhenFits ==
    (call.op = "Money::div" /\ ret # Pending /\ ProductsFit) =>
        /\ ret.kind = "Ok"
        /\ IsTruncatedDiv(ret.val, WMul(call.money, I(100000000)), call.rhs)
        /\ (call.money = I(100) /\ call.rhs = I(300)) => ret.val = I(33333333)
        /\ (call.money = I(1) /\ call.rhs = I(100)) => ret.val = I(1000000)

AdjustmentCall == call.op = "calculate_adjustment" /\ ret # Pending

\* the income above the deductions, zero if there is none
TaxableOf(policy, summary) ==
    LET above == WSub(summary.taxable_income, policy.deductions)
    IN  IF above.neg THEN Zero ELSE above

\* taxable income times the policy rate, the product calculate_owed computes
OwedProduct == WMul(TaxableOf(call.policy, call.summary), call.policy.rate)

\* C12: calculate_adjustment returns withheld = summary.tax_withheld, owed =
\* the policy's rate of the taxable income, and delta = withheld - owed
\* (positive exactly when more was withheld than owed); the fixed value of
\* the flow it emits is that delta.
C12_AdjustmentDelta ==
    AdjustmentCall =>
        IF FitsI64(OwedProduct)
        THEN /\ ret.kind = "Ok"
             /\ LET adj == ret.val.adjustment
                IN  /\ adj.withheld = call.summary.tax_withheld
                    /\ IsTruncatedQuotient(adj.owed, OwedProduct, I(100000000))
                    /\ WAdd(adj.delta, adj.owed) = adj.withheld
                    /\ WLt(Zero, adj.delta) <=> WLt(adj.owed, adj.withheld)
                    /\ ret.val.flow.value = FixedFlow(adj.delta)
        ELSE ret.kind # "Ok"

\* $10,000 of income, $3,000 deducted, 35% owed on the rest, 99 cents
\* withheld: $2,450 owed and a delta of -$2,449.01
C12_Witness ==
    /\ AdjustmentCall
    /\ call.policy = FixedRateTaxPolicy(I(35000000), I(300000))
    /\ call.summary.taxable_income = I(1000000)
    /\ call.summary.tax_withheld = I(99)
    /\ ret.kind = "Ok"
    /\ ret.val.adjustment.owed = I(245000)
    /\ ret.val.adjustment.delta = I(-244901)

\* C13: effective_rate is owed / taxable income when the taxable income is
\* not zero and 0% when it is zero; calculate_adjustment never divides by
\* zero.
C13_EffectiveRate ==
    AdjustmentCall =>
        /\ ~(ret.kind = "Panic" /\ ret.val = "attempt to divide by zero")
        /\ FitsI64(OwedProduct) => ret.kind = "Ok"
        /\ ret.kind = "Ok" =>
              LET taxable == TaxableOf(call.policy, call.summary)
                  adj == ret.val.adjustment
              IN  IF taxable = Zero THEN adj.effective_rate = Zero
                  ELSE IsTruncatedDiv(adj.effective_rate, WMul(adj.owed, I(100000000)),
                                      taxable)

\* income exactly at the deduction: nothing taxable, effective rate 0%
C13_Witness ==
    /\ AdjustmentCall
    /\ call.policy.deductions = I(300000)
    /\ call.summary.taxable_income = I(300000)
    /\ ret.kind = "Ok"
    /\ ret.val.adjustment.effective_rate = Zero

\* C23: FixedRateTaxPolicy owes its rate of the income above the
\* deduction: with income at or below the deduction it owes 0 and delta is
\* the whole amount withheld; with a rate that is not negative it never
\* owes a negative amount.
C23_FixedRateFloor ==
    (AdjustmentCall /\ ret.kind = "Ok") =>
        LET adj    == ret.val.adjustment
            income == call.summary.taxable_income
        IN  /\ WLe(income, call.policy.deductions) =>
                  /\ adj.owed = Zero
                  /\ adj.delta = call.summary.tax_withheld
                  /\ adj.effective_rate = Zero
            /\ WLt(call.policy.deductions, income) =>
                  IsTruncatedQuotient(adj.owed,
                                      WMul(WSub(income, call.policy.deductions),
                                           call.policy.rate),
                                      I(100000000))
            /\ ~call.policy.rate.neg => ~adj.owed.neg

\* an income of -$2,500 with no deduction at 35%: nothing owed, and the
\* 99 cents withheld are the delta
C23_Witness ==
    /\ AdjustmentCall
    /\ ret.kind = "Ok"
    /\ call.policy = FixedRateTaxPolicy(I(35000000), I(0))
    /\ call.summary.taxable_income = I(-250000)
    /\ call.summary.tax_withheld = I(99)
    /\ ret.val.adjustment.owed = Zero
    /\ ret.val.adjustment.delta = I(99)

\* C14: calculate_tax returns net = gross - withheld; NoWithholding: taxable
\* income = gross, withheld = 0; TaxExempt: taxable income = 0, withheld =
\* 0, net = gross; ConstantTaxPolicy(r): taxable income = gross, withheld =
\* gross at rate r; a gross of zero gives zero net, taxable income and
\* withheld.
C14_CalculateTax ==
    (call.op = "calculate_tax" /\ ret # Pending) =>
        IF call.policy.kind = "ConstantTaxPolicy" /\ ~FitsI64(WMul(call.gross, call.policy.rate))
        THEN ret.kind # "Ok"
        ELSE /\ ret.kind = "Ok"
             /\ LET net == ret.val.net
                    tx == ret.val.tax_tx
                IN  /\ WAdd(net, tx.tax_withheld) = call.gross
                    /\ call.policy.kind = "NoWithholding" =>
                          (tx.taxable_income = call.gross /\ tx.tax_withheld = Zero)
                    /\ call.policy.kind = "TaxExempt" =>
                          (tx.taxable_income = Zero /\ tx.tax_withheld = Zero
                              /\ net = call.gross)
                    /\ call.policy.kind = "ConstantTaxPolicy" =>
                          /\ tx.taxable_income = call.gross
                          /\ IsTruncatedQuotient(tx.tax_withheld,
                                                 WMul(call.gross, call.policy.rate),
                                                 I(100000000))
                    /\ call.gross = Zero =>
                          (net = Zero /\ tx.taxable_income = Zero /\ tx.tax_withheld = Zero)

\* $12,345.67 withheld at 33.333333%: $4,115.22 withheld, $8,230.45 net
C14_Witness ==
    /\ call.op = "calculate_tax" /\ ret # Pending
    /\ call.policy = ConstantTaxPolicy(I(33333333))
    /\ call.gross = I(1234567)
    /\ ret = Ok([net |-> I(823045), tax_tx |-> TaxTx(I(1234567), I(411522))])

\* C15: the flow calculate_adjustment emits for year N is named "Tax
\* adjustment", Monthly, from April of N+1 to its next month May of N+1, so
\* it applies in April of N+1 only; its transaction has amount delta and a
\* TaxTx of zero taxable income and zero withheld, so applying it adds delta
\* to a TaxSummary's net_amount and leaves the other two sums alone.
C15_TaxFlow ==
    (AdjustmentCall /\ ret.kind = "Ok") =>
        LET flow   == ret.val.flow
            delta  == ret.val.adjustment.delta
            april  == Time(call.year + 1, "April")
            tx     == Flow_calculate_transaction(flow, I(12345), april)
            before == [net_amount |-> I(500), taxable_income |-> I(700),
                       tax_withheld |-> I(70)]
        IN  /\ flow.name = "Tax adjustment"
            /\ flow.frequency = "Monthly"
            /\ flow.start = april
            /\ flow.end = Time_next(flow.start)
            /\ flow.end = Time(call.year + 1, "May")
            /\ \A t \in {Time(y, m) : y \in call.year..(call.year + 2), m \in MonthSet} :
                  FlowValue_applies_at(t, flow) <=> t = april
            /\ tx.kind = "Ok"
            /\ tx.val = Tx(april, delta, TaxTx(Zero, Zero))
            /\ TaxSummary_apply_tx(before, tx.val.tax_tx, tx.val.amount) =
                  [net_amount |-> WAdd(I(500), delta), taxable_income |-> I(700),
                   tax_withheld |-> I(70)]

\* a refund: $10,000 withheld, nothing owed, so the flow pays $10,000
C15_Witness ==
    /\ AdjustmentCall
    /\ ret.kind = "Ok"
    /\ call.summary.tax_withheld = I(1000000)
    /\ ret.val.adjustment.owed = Zero
    /\ ret.val.flow.value = FixedFlow(I(1000000))

\* a text produced by Display was parsed
Reparsed == call.op = "Rate::from_str" /\ call.of # <<>> /\ ret # Pending

\* C18: parsing the text Display produces for a Rate yields that Rate
\* again, for every Rate: positive, zero or negative, with or without a
\* fractional part.
C18_RoundTrip == Reparsed => (ret.kind = "Ok" /\ ret.val = call.of[1])

\* The round trip does hold for a whole number of percent and for a
\* positive Rate whose fraction is at least 0.1%, the fractions Display
\* prints with all six digits.
C18_RoundTripSixDigits ==
    (Reparsed /\ LET remainder == i64_wide_rem(call.of[1], I(RATE_SCALE))
                 IN  remainder = Zero \/ WLe(I(100000), remainder)) =>
        (ret.kind = "Ok" /\ ret.val = call.of[1])

\* a text given to parse, what is left of it without the surrounding spaces
\* and the trailing percent signs
Parsed == call.op = "Rate::from_str" /\ call.of = <<>> /\ ret # Pending

CleanText == str_trim(str_trim_end_matches(str_trim(call.s), {"%"}))

HasPoint == \E i \in 1..Len(CleanText) : CleanText[i] = "."

\* more than six digits, and digits only, after the point
TooManyFractionDigits ==
    /\ HasPoint
    /\ LET fraction == str_split_once(CleanText, ".")[2]
       IN  /\ Len(fraction) > RATE_PRECISION
           /\ \A i \in 1..Len(fraction) : fraction[i] \in Digits

NonNumeric ==
    \/ \E i \in 1..Len(CleanText) : CleanText[i] \notin Digits \cup {".", "+", "-"}
    \/ \A i \in 1..Len(CleanText) : CleanText[i] \notin Digits

\* a sign anywhere but in front: inside or behind the number, after the
\* point, or behind another sign
MisplacedSign == \E i \in 2..Len(CleanText) : CleanText[i] \in {"+", "-"}

\* C19: parsing returns an error, neither a panic nor a Rate, for a text
\* with more than six fractional digits whatever the digits, for a
\* non-numeric text and for a text with a misplaced sign.
C19_ParseRejects ==
    (Parsed /\ (TooManyFractionDigits \/ NonNumeric \/ MisplacedSign)) => ret.kind = "Err"

\* Non-numeric texts and misplaced signs are rejected, and so are more
\* than six fractional digits when the digits before the last six are not
\* all zeros.
C19_RejectsMalformed ==
    (Parsed /\ (NonNumeric \/ MisplacedSign
                  \/ (TooManyFractionDigits /\
                        LET fraction == str_split_once(CleanText, ".")[2]
                        IN  \E i \in 1..(Len(fraction) - RATE_PRECISION) :
                                fraction[i] # "0"))) =>
        ret.kind = "Err"

(***************************************************************************)
(* The simulation: Model::new, then Model::run over a range of years.      *)
(* pc is the position of the caller: "start", then "constructed" or        *)
(* "invalid" after Model::new, "running" inside the loop of Model::run     *)
(* (cur_year is the iterator's current), then "done" or "panicked".        *)
(***************************************************************************)
MaxFlows == 2

Y0 == FirstYear

Percent(n) == WMul(I(n), I(RATE_SCALE))

\* tables as LookupTable::new leaves them (sorted, contiguous)
RateTable ==
    <<[start |-> Time(Y0, "January"), end |-> Time(Y0, "July"), value |-> Percent(2)],
      [start |-> Time(Y0, "July"), end |-> Time(Y0 + 1, "March"), value |-> Percent(-1)]>>

MoneyTable ==
    <<[start |-> Time(Y0, "January"), end |-> Time(Y0 + NumYears, "January"),
       value |-> Money_from_dollars(5000)]>>

salary ==
    Flow("salary", Time(Y0, "March"), Time(Y0 + 2, "February"), "Monthly",
         FixedFlow(Money_from_dollars(1000)), ConstantTaxPolicy(Percent(10)))

interest ==
    Flow("interest", Time(Y0, "January"), Time(Y0 + NumYears, "January"), "Monthly",
         RateFlow(Percent(1)), NoWithholding)

\* a second flow under the name "salary"
garnish ==
    Flow("salary", Time(Y0, "June"), Time(Y0 + 1, "June"), "Monthly",
         FixedFlow(Money_from_dollars(-300)), TaxExempt)

\* its table ends before its window does
indexed ==
    Flow("indexed", Time(Y0, "January"), Time(Y0 + 2, "January"), "Quarterly",
         RateTableFlow(RateTable), TaxExempt)

\* a rate large enough that a balance of a hundred dollars overflows i64
boom ==
    Flow("boom", Time(Y0 + 1, "June"), Time(Y0 + 1, "August"), "Monthly",
         RateFlow(Wide(FALSE, <<0, 0, 0, 0, 0, 1>>)), NoWithholding)

bonus ==
    Flow("bonus", Time(Y0, "December"), Time(Y0 + NumYears, "January"), "Yearly",
         TableFlow(MoneyTable), ConstantTaxPolicy(Percent(25)))

rent ==
    Flow("rent", Time(Y0, "January"), Time(Y0 + NumYears, "January"), "Monthly",
         FixedFlow(Money_from_dollars(-450)), TaxExempt)

FlowMenu1 == {salary, interest, garnish, indexed, boom, bonus}

FlowMenu2 == {interest, rent}

FlowLists(menu, max) == UNION {[1..n -> menu] : n \in 0..max}

Categories ==
    <<[name |-> "c1", assets |-> <<Money_from_dollars(123)>>],
      [name |-> "c2", assets |-> <<Money_from_dollars(456), Money_from_dollars(-56)>>]>>

\* BTreeMap<CategoryName, Vec<Flow>>: a category may have no entry
FlowMaps ==
    {[c \in ks |-> IF c = "c1" THEN l1 ELSE l2] :
        ks \in SUBSET {"c1", "c2"},
        l1 \in FlowLists(FlowMenu1, MaxFlows), l2 \in FlowLists(FlowMenu2, 1)}

YearRanges ==
    {[start |-> s, end |-> e] :
        s \in {FirstYear, FirstYear + 1}, e \in {FirstYear, FirstYear + NumYears}}

ModelInput(flow_map, tax_category, time_range) ==
    [flows |-> flow_map, categories |-> Categories,
     tax_policy |-> FixedRateTaxPolicy(Percent(35), Money_from_dollars(3000)),
     tax_category |-> tax_category, time_range |-> time_range]

ValidInputs ==
    {ModelInput(fm, tc, tr) : fm \in FlowMaps, tc \in {"c1", "c2"}, tr \in YearRanges}

\* a tax category or a flows key that is no configured category
InvalidInputs ==
    {ModelInput(fm, tc, [start |-> FirstYear, end |-> FirstYear + 1]) :
        fm \in {[c \in ks |-> <<salary>>] : ks \in SUBSET {"c1", "c2", "cx"}},
        tc \in {"c1", "cx"}}

Init ==
    /\ build = "release"
    /\ call = [op |-> "Model"]
    /\ ret = Pending
    /\ tbl = <<>>
    /\ pc = "start"
    /\ input \in ValidInputs \cup InvalidInputs
    /\ flows = <<>>
    /\ category_values = <<>>
    /\ cur_year = 0
    /\ out = <<>>
    /\ failure = NoFailure

\* Model::new: the Model owns the flows map only if validate passes
Model_new ==
    /\ pc = "start"
    /\ LET valid == Model_validate(input)
       IN  IF valid.kind = "Ok"
           THEN /\ pc' = "constructed"
                /\ ret' = Ok("Model")
                /\ flows' = input.flows
           ELSE /\ pc' = "invalid"
                /\ ret' = valid
                /\ flows' = flows
    /\ UNCHANGED <<build, call, tbl, input, category_values, cur_year, out, failure>>

\* Model::run up to the first call of the iterator's next
Model_run_begin ==
    /\ pc = "constructed"
    /\ pc' = "running"
    /\ category_values' = [i \in 1..Len(input.categories) |-> Category_value(input.categories[i])]
    /\ out' = EmptyMap
    /\ cur_year' = input.time_range.start
    /\ ret' = Pending
    /\ UNCHANGED <<build, call, tbl, input, flows, failure>>

\* one iteration of the loop of Model::run: run_year and out.insert
Model_run_iteration ==
    /\ pc = "running"
    /\ TimeRangeIter_has_next(cur_year, input.time_range.end)
    /\ \E r \in {Model_run_year(cur_year, category_values, flows, input.tax_policy,
                                input.tax_category)} :
           IF r.kind = "Ok"
           THEN /\ category_values' = r.val.category_values
                /\ flows' = r.val.flows
                /\ out' = MapInsert(out, cur_year, r.val.report)
                /\ cur_year' = Year_next(cur_year)
                /\ UNCHANGED <<pc, ret, failure>>
           ELSE /\ pc' = "panicked"
                /\ failure' = r
                /\ ret' = Panic("Model::run")
                /\ UNCHANGED <<category_values, flows, out, cur_year>>
    /\ UNCHANGED <<build, call, tbl, input>>

\* the iterator is exhausted: ModelReport { years: out }
Model_run_return ==
    /\ pc = "running"
    /\ ~TimeRangeIter_has_next(cur_year, input.time_range.end)
    /\ pc' = "done"
    /\ ret' = Ok([years |-> out])
    /\ UNCHANGED <<build, call, tbl, input, flows, category_values, cur_year, out, failure>>

Next == Model_new \/ Model_run_begin \/ Model_run_iteration \/ Model_run_return

Spec == Init /\ [][Next]_vars

(***************************************************************************)
(* Claims about the simulation                                             *)
(***************************************************************************)
\* the MonthlyReport of a reported month
Reported(y, cat, m) == out[y].category_summary[cat][m]

InitialValue(cat) ==
    Money_sum((CHOOSE c \in {input.categories[i] : i \in 1..Len(input.categories)} :
                  c.name = cat).assets)

\* the value the last simulated month up to December of y reported for cat,
\* the initial value if no month was simulated
RECURSIVE ValueAfterYear(_, _)
ValueAfterYear(cat, y) ==
    IF y \notin DOMAIN out THEN InitialValue(cat)
    ELSE IF cat \in DOMAIN out[y].category_summary THEN Reported(y, cat, "December").value
    ELSE ValueAfterYear(cat, y - 1)

\* the balance at the start of month m of year y
PrevBalance(cat, y, m) ==
    IF m = "January" THEN ValueAfterYear(cat, y - 1)
    ELSE Reported(y, cat, CHOOSE p \in MonthSet : Month_next(p) = m).value

ReportedMonths ==
    {<<y, cat, m>> \in (DOMAIN out) \X {"c1", "c2"} \X MonthSet :
        cat \in DOMAIN out[y].category_summary}

\* flow i of the list is the last that applies at the time under its name
LastOfName(list, i, time) ==
    /\ FlowValue_applies_at(time, list[i])
    /\ \A j \in (i + 1)..Len(list) :
          list[j].name = list[i].name => ~FlowValue_applies_at(time, list[j])

\* C1: in every reported month, the recorded transaction of a flow is the
\* one calculated against the balance at the start of that month (the
\* previous month's reported value), whatever its position in the list and
\* whatever else is recorded in the month.
C1_SnapshotEvaluation ==
    \A k \in ReportedMonths :
        LET y == k[1]
            cat == k[2]
            m == k[3]
        IN  \A i \in 1..Len(flows[cat]) :
                LastOfName(flows[cat], i, Time(y, m)) =>
                    /\ flows[cat][i].name \in DOMAIN Reported(y, cat, m).transactions
                    /\ LET tx == Flow_calculate_transaction(flows[cat][i],
                                     PrevBalance(cat, y, m), Time(y, m))
                       IN  /\ tx.kind = "Ok"
                           /\ tx.val = Reported(y, cat, m).transactions[flows[cat][i].name]

\* a finished run in which interest is listed after salary, both are
\* recorded in one month, and the interest is the rate of the balance before
\* the salary, not of the balance after it
C1_Witness ==
    /\ pc = "done"
    /\ \E k \in ReportedMonths :
          LET txns == Reported(k[1], k[2], k[3]).transactions
              prev == PrevBalance(k[2], k[1], k[3])
          IN  /\ k[2] \in DOMAIN input.flows
              /\ input.flows[k[2]] = <<salary, interest>>
              /\ {"salary", "interest"} \subseteq DOMAIN txns
              /\ txns["interest"].amount = Money_at_rate(prev, Percent(1)).val
              /\ txns["interest"].amount #
                    Money_at_rate(WAdd(prev, txns["salary"].amount), Percent(1)).val

RECURSIVE SumAmounts(_, _)
SumAmounts(txns, names) ==
    IF names = {} THEN Zero
    ELSE LET n == CHOOSE n \in names : TRUE
         IN  WAdd(txns[n].amount, SumAmounts(txns, names \ {n}))

\* C2: the value a month reports is the balance at the start of the month
\* (initial value, previous month, or previous December) plus the amounts of
\* the transactions recorded in the month's map.
C2_BalanceCoupling ==
    \A k \in ReportedMonths :
        LET r == Reported(k[1], k[2], k[3])
        IN  r.value = WAdd(PrevBalance(k[2], k[1], k[3]),
                           SumAmounts(r.transactions, DOMAIN r.transactions))

\* a finished run with a month in which two flows named "salary" apply: the
\* map holds the later one only and the value moves by its amount only
C2_Witness ==
    /\ pc = "done"
    /\ \E k \in ReportedMonths :
          LET r == Reported(k[1], k[2], k[3])
              t == Time(k[1], k[3])
          IN  /\ k[2] \in DOMAIN input.flows
              /\ input.flows[k[2]] = <<salary, garnish>>
              /\ FlowValue_applies_at(t, salary)
              /\ FlowValue_applies_at(t, garnish)
              /\ DOMAIN r.transactions = {"salary"}
              /\ r.value = WAdd(PrevBalance(k[2], k[1], k[3]), Money_from_dollars(-300))

\* C3: when years N and N+1 are both simulated, April of N+1 in the tax
\* category records a transaction "Tax adjustment" whose amount is the
\* delta of year N, and a transaction of that name is recorded nowhere else.
C3_TaxFeedback ==
    \A y \in DOMAIN out :
        /\ \A cat \in DOMAIN out[y].category_summary : \A m \in MonthSet :
              "Tax adjustment" \in DOMAIN Reported(y, cat, m).transactions =>
                  /\ cat = input.tax_category
                  /\ m = "April"
                  /\ (y - 1) \in DOMAIN out
        /\ (y - 1) \in DOMAIN out =>
              /\ input.tax_category \in DOMAIN out[y].category_summary
              /\ "Tax adjustment" \in
                    DOMAIN Reported(y, input.tax_category, "April").transactions
              /\ Reported(y, input.tax_category, "April").transactions["Tax adjustment"].amount
                    = out[y - 1].tax_adjustment.delta

\* a finished run whose tax category had no flows entry, with a year whose
\* April records the nonzero delta of the year before
C3_Witness ==
    /\ pc = "done"
    /\ input.tax_category \notin DOMAIN input.flows
    /\ \E y \in DOMAIN out :
          /\ (y - 1) \in DOMAIN out
          /\ out[y - 1].tax_adjustment.delta # Zero
          /\ Reported(y, input.tax_category, "April").transactions["Tax adjustment"].amount
                = out[y - 1].tax_adjustment.delta

ConfigValid ==
    /\ input.tax_category \in {"c1", "c2"}
    /\ DOMAIN input.flows \subseteq {"c1", "c2"}

\* C4: Model::new returns an error exactly when the tax category or a key
\* of the flows map is no configured category; otherwise it returns the
\* Model.  Nothing is run on a rejected configuration.
C4_NewValidates ==
    pc # "start" =>
        /\ (pc = "invalid") <=> ~ConfigValid
        /\ pc = "invalid" => (ret.kind = "Err" /\ flows = <<>> /\ out = <<>>)
        /\ pc = "constructed" => (ret = Ok("Model") /\ flows = input.flows)

\* rejected for a flows key alone: the tax category is configured
C4_Witness ==
    /\ pc = "invalid"
    /\ input.tax_category = "c1"
    /\ "cx" \in DOMAIN input.flows

\* C5: a failure during run makes run return an error.
C5_FailureIsError == failure.kind # "None" => ret.kind = "Err"

\* every transaction recorded in the category_summary of year y
RecordedTxns(y) ==
    UNION {{<<cat, m, n>> : n \in DOMAIN Reported(y, cat, m).transactions} :
              <<cat, m>> \in (DOMAIN out[y].category_summary) \X MonthSet}

TxField(tx, field) ==
    IF field = "net_amount" THEN tx.amount
    ELSE IF field = "taxable_income" THEN tx.tax_tx.taxable_income
    ELSE tx.tax_tx.tax_withheld

RECURSIVE SumRecorded(_, _, _)
SumRecorded(y, keys, field) ==
    IF keys = {} THEN Zero
    ELSE LET k == CHOOSE k \in keys : TRUE
         IN  WAdd(TxField(Reported(y, k[1], k[2]).transactions[k[3]], field),
                  SumRecorded(y, keys \ {k}, field))

\* C16: the TaxSummary of every reported year is, field by field, the sum
\* over the transactions recorded in that year's category_summary, all
\* categories and all twelve months: it starts from zero each year and holds
\* nothing of the year before.
C16_TaxSummarySums ==
    \A y \in DOMAIN out :
        /\ DOMAIN out[y].tax_summary = {"net_amount", "taxable_income", "tax_withheld"}
        /\ \A field \in DOMAIN out[y].tax_summary :
              out[y].tax_summary[field] = SumRecorded(y, RecordedTxns(y), field)

\* a finished run with two consecutive years, transactions in both
\* categories, tax withheld, and a second year whose sums are its own
C16_Witness ==
    /\ pc = "done"
    /\ \E y \in DOMAIN out :
          /\ (y - 1) \in DOMAIN out
          /\ DOMAIN out[y].category_summary = {"c1", "c2"}
          /\ \A cat \in {"c1", "c2"} : \E k \in RecordedTxns(y) : k[1] = cat
          /\ out[y - 1].tax_summary.taxable_income # Zero
          /\ out[y].tax_summary.tax_withheld # Zero
          /\ out[y].tax_summary.net_amount # out[y].tax_summary.taxable_income
          /\ out[y].tax_summary.taxable_income =
                SumRecorded(y, RecordedTxns(y), "taxable_income")

\* the categories that have a flow list when year y is run: the keys of the
\* configured flows map and, after the first year, the tax category
SimulatedCategories(y) ==
    (DOMAIN input.flows) \cup
        (IF y > input.time_range.start THEN {input.tax_category} ELSE {})

\* C17: run reports the years from start upwards, one after the other, and
\* returns exactly the years y with start <= y < end, each with the twelve
\* monthly reports of every simulated category; when start >= end the
\* report is empty and no balance and no flow list has changed.
C17_YearRange ==
    pc \in {"running", "done", "panicked"} =>
        /\ DOMAIN out = input.time_range.start..(cur_year - 1)
        /\ \A y \in DOMAIN out :
              /\ DOMAIN out[y].category_summary = SimulatedCategories(y)
              /\ \A cat \in DOMAIN out[y].category_summary :
                    DOMAIN out[y].category_summary[cat] = MonthSet
        /\ pc = "done" =>
              /\ ret.kind = "Ok"
              /\ ret.val.years = out
              /\ DOMAIN out = input.time_range.start..(input.time_range.end - 1)
              /\ input.time_range.start >= input.time_range.end =>
                    /\ out = EmptyMap
                    /\ flows = input.flows
                    /\ category_values =
                          [i \in 1..Len(input.categories) |->
                              Category_value(input.categories[i])]

\* a finished run over three years, both categories simulated in each
C17_Witness ==
    /\ pc = "done"
    /\ input.time_range.end = input.time_range.start + 3
    /\ DOMAIN ret.val.years = input.time_range.start..(input.time_range.start + 2)
    /\ \A y \in DOMAIN out : DOMAIN out[y].category_summary = {"c1", "c2"}

\* the tax category's list of a flows map, empty if it has none
TaxList(flow_map) ==
    IF input.tax_category \in DOMAIN flow_map THEN flow_map[input.tax_category] ELSE <<>>

\* a step of the run that reports a year leaves the flows map as it was but
\* for one flow appended to the tax category's list: the year's "Tax
\* adjustment", which applies in no month of that year; a tax category
\* without a list was not simulated in that year
AppendsTaxFlow ==
    /\ DOMAIN out' = (DOMAIN out) \cup {cur_year}
    /\ cur_year \notin DOMAIN out
    /\ DOMAIN flows' = (DOMAIN flows) \cup {input.tax_category}
    /\ \A cat \in (DOMAIN flows) \ {input.tax_category} : flows'[cat] = flows[cat]
    /\ Len(TaxList(flows')) = Len(TaxList(flows)) + 1
    /\ SubSeq(TaxList(flows'), 1, Len(TaxList(flows))) = TaxList(flows)
    /\ LET appended == TaxList(flows')[Len(TaxList(flows'))]
       IN  /\ appended = tax_flow(cur_year, out'[cur_year].tax_adjustment.delta)
           /\ \A m \in MonthSet : ~FlowValue_applies_at(Time(cur_year, m), appended)
    /\ DOMAIN out'[cur_year].category_summary = DOMAIN flows

\* C20: during a run the flows map changes only by the one flow a reported
\* year appends to the tax category's list (created if absent), after the
\* year's categories were evaluated; nothing is removed, reordered or
\* altered, so after k reported years the tax category's list is k flows
\* longer than the configured one.
C20_FlowsFrame ==
    /\ [](pc \in {"constructed", "running", "done", "panicked"} =>
            /\ Len(TaxList(flows)) = Len(TaxList(input.flows)) + Cardinality(DOMAIN out)
            /\ SubSeq(TaxList(flows), 1, Len(TaxList(input.flows))) = TaxList(input.flows)
            /\ \A cat \in (DOMAIN flows) \ {input.tax_category} :
                  cat \in DOMAIN input.flows /\ flows[cat] = input.flows[cat])
    /\ [][pc # "start" =>
            /\ flows' # flows => AppendsTaxFlow
            /\ out' # out /\ pc = "running" => AppendsTaxFlow]_vars

\* three years reported, the tax category c1 configured with two flows: its
\* list holds these two and three more, and c2's list is the configured one
C20_Witness ==
    /\ pc = "done"
    /\ input.tax_category = "c1"
    /\ DOMAIN input.flows = {"c1", "c2"}
    /\ input.flows["c1"] = <<salary, interest>>
    /\ input.flows["c2"] = <<rent>>
    /\ Cardinality(DOMAIN out) = 3
    /\ Len(flows["c1"]) = 5
    /\ SubSeq(flows["c1"], 1, 2) = <<salary, interest>>
    /\ \A i \in 3..5 : flows["c1"][i].name = "Tax adjustment"
    /\ flows["c2"] = <<rent>>

\* C21: at every point of a run, when two flows of a category's list have
\* one name and both apply in a reported month, the month's map holds
\* under that name the transaction of the one that is later in the list (of
\* the last, if there are more), and the names of the map are the names of
\* the flows that apply.
C21_LaterFlowReplaces ==
    [](\A k \in ReportedMonths :
          LET list == flows[k[2]]
              t    == Time(k[1], k[3])
              txns == Reported(k[1], k[2], k[3]).transactions
          IN  /\ DOMAIN txns =
                    {list[i].name : i \in {x \in 1..Len(list) : FlowValue_applies_at(t, list[x])}}
              /\ \A i, j \in 1..Len(list) :
                    (i < j /\ list[i].name = list[j].name
                       /\ FlowValue_applies_at(t, list[i]) /\ FlowValue_applies_at(t, list[j])) =>
                        \E l \in j..Len(list) :
                            /\ list[l].name = list[j].name
                            /\ LastOfName(list, l, t)
                            /\ txns[list[j].name] =
                                  Flow_calculate_transaction(list[l], PrevBalance(k[2], k[1], k[3]),
                                                             t).val)

\* salary listed before garnish, both named "salary" and both applying:
\* the map holds the garnish of -$300 and not the net salary of $900
C21_Witness ==
    /\ pc = "done"
    /\ \E k \in ReportedMonths :
          /\ k[2] \in DOMAIN input.flows
          /\ input.flows[k[2]] = <<salary, garnish>>
          /\ FlowValue_applies_at(Time(k[1], k[3]), salary)
          /\ FlowValue_applies_at(Time(k[1], k[3]), garnish)
          /\ Reported(k[1], k[2], k[3]).transactions["salary"].amount = Money_from_dollars(-300)
          /\ Reported(k[1], k[2], k[3]).transactions["salary"].amount # Money_from_dollars(900)

\* no flow of the list applies in a month of the year
NeverApplies(list, year) ==
    \A i \in 1..Len(list), m \in MonthSet : ~FlowValue_applies_at(Time(year, m), list[i])

\* what the step that reports cur_year did to category i
YearOfCategory(i) ==
    LET name    == category_values[i].name
        summary == out'[cur_year].category_summary
    IN  IF name \notin DOMAIN flows
        THEN /\ name \notin DOMAIN summary
             /\ category_values'[i] = category_values[i]
        ELSE /\ name \in DOMAIN summary
             /\ DOMAIN summary[name] = MonthSet
             /\ NeverApplies(flows[name], cur_year) =>
                   /\ \A m \in MonthSet :
                         /\ summary[name][m].transactions = EmptyMap
                         /\ summary[name][m].value = category_values[i].value
                   /\ category_values'[i] = category_values[i]

\* C22: a year leaves a category without an entry in the flows map out of
\* its category_summary and leaves its balance as it was; a category with
\* an entry gets twelve monthly reports, with empty maps and the balance
\* unchanged when none of its flows applies in the year; a year in which
\* no category has a flow that applies has a TaxSummary of zeros.
C22_UnsimulatedCategory ==
    [][(pc = "running" /\ out' # out) =>
          /\ \A i \in 1..Len(category_values) : YearOfCategory(i)
          /\ (\A i \in 1..Len(category_values) :
                 category_values[i].name \in DOMAIN flows =>
                     NeverApplies(flows[category_values[i].name], cur_year)) =>
                out'[cur_year].tax_summary = TaxSummary_new]_vars

\* a finished run in which c1 had an empty flow list and the tax category c2
\* had no entry: the first year reports c1 alone, twelve months without a
\* transaction at the initial $123, which c1 still holds at the end
C22_Witness ==
    /\ pc = "done"
    /\ input.tax_category = "c2"
    /\ DOMAIN input.flows = {"c1"}
    /\ input.flows["c1"] = <<>>
    /\ input.time_range.start \in DOMAIN out
    /\ DOMAIN out[input.time_range.start].category_summary = {"c1"}
    /\ \A m \in MonthSet :
          /\ Reported(input.time_range.start, "c1", m).transactions = EmptyMap
          /\ Reported(input.time_range.start, "c1", m).value = Money_from_dollars(123)
    /\ out[input.time_range.start].tax_summary = TaxSummary_new
    /\ category_values[1].value = Money_from_dollars(123)

(***************************************************************************)
(* A plan with one event.  build_model turns the event into flows and      *)
(* merges them into the flows of the plan (pc = "event"), then Model::new  *)
(* and Model::run go on as above; "failed" is build_model returning the    *)
(* error of build_flows.                                                   *)
(***************************************************************************)
\* build_model: flows.entry(name).or_insert_with(Vec::new).push(flow), for
\* every flow of the event in turn
RECURSIVE build_model_flows(_, _)
build_model_flows(flow_map, event_flows) ==
    IF event_flows = <<>> THEN flow_map
    ELSE LET name == event_flows[1][1]
             list == IF name \in DOMAIN flow_map THEN flow_map[name] ELSE <<>>
         IN  build_model_flows(MapInsert(flow_map, name, Append(list, event_flows[1][2])),
                               Tail(event_flows))

EventCategories ==
    <<[name |-> "house", assets |-> <<>>],
      [name |-> "mortgage", assets |-> <<>>],
      [name |-> "savings", assets |-> <<Money_from_dollars(80000)>>],
      [name |-> "checking", assets |-> <<Money_from_dollars(5000)>>]>>

\* a term of three months, a term of no month, a term that outlasts the run
PurchaseRanges ==
    {[start |-> Time(Y0, "November"), end |-> Time(Y0 + 1, "February")],
     [start |-> Time(Y0, "December"), end |-> Time(Y0, "December")],
     [start |-> Time(Y0 + 1, "March"), end |-> Time(Y0 + NumYears + 1, "March")]}

\* <<purchase_price, setup_cost, down_payment>>
PurchasePrices ==
    {<<Money_from_dollars(300000), Money_from_dollars(4500), Money_from_dollars(60000)>>,
     <<Money_from_dollars(50000), Money_from_dollars(700), Money_from_dollars(50000)>>}

HousePurchases ==
    {[property_name |-> "home", time_range |-> tr, mortgage_rate |-> rate,
      purchase_price |-> pr[1], setup_cost |-> pr[2], down_payment |-> pr[3],
      house_value_category |-> "house", mortgage_category |-> mc,
      down_payment_category |-> dc, regular_payment_category |-> rc] :
        tr \in PurchaseRanges, rate \in {Zero, Percent(6)}, pr \in PurchasePrices,
        mc \in {"mortgage", "house"}, dc \in {"savings", "mortgage", "house"},
        rc \in {"checking", "savings", "mortgage"}}

TransferTimes == {Time(Y0, "June"), Time(Y0 + 1, "January"), Time(Y0 + 1, "December")}

Transfers ==
    [op : {"make_transaction"}, name : {"gift"}, source : {"savings", "checking"},
     target : {"checking", "house"}, time : TransferTimes,
     value : {Money_from_dollars(500), Money_from_cents(-1999)}]

\* the flows of the plan itself
PlanFlows == {EmptyMap, [c \in {"checking"} |-> <<salary, rent>>]}

EventInput(flow_map) ==
    [flows |-> flow_map, categories |-> EventCategories,
     tax_policy |-> FixedRateTaxPolicy(Percent(35), Money_from_dollars(3000)),
     tax_category |-> "checking",
     time_range |-> [start |-> Y0, end |-> Y0 + 2]]

InitEvent ==
    /\ build = "release"
    /\ \/ \E hp \in HousePurchases :
             \E a \in AmortisedRates(Rate_div(hp.mortgage_rate, I(12)).val,
                                     Time_sub(hp.time_range.end, hp.time_range.start)) :
                 call = [op |-> "HousePurchase", event |-> hp, amortised |-> a]
       \/ call \in Transfers
    /\ ret = Pending
    /\ tbl = <<>>
    /\ pc = "event"
    /\ \E fm \in PlanFlows : input = EventInput(fm)
    /\ flows = <<>>
    /\ category_values = <<>>
    /\ cur_year = 0
    /\ out = <<>>
    /\ failure = NoFailure

\* event.build_flows() of a HousePurchase and the merge of its flows
HousePurchase_build_flows_call ==
    /\ pc = "event"
    /\ call.op = "HousePurchase"
    /\ \E r \in {HousePurchase_build_flows(call.event, call.amortised)} :
           IF r.kind = "Ok"
           THEN /\ input' = [input EXCEPT !.flows = build_model_flows(input.flows, r.val)]
                /\ pc' = "start"
                /\ ret' = ret
           ELSE /\ input' = input
                /\ pc' = "failed"
                /\ ret' = Err("Failed to build flows for event")
    /\ UNCHANGED <<build, call, tbl, flows, category_values, cur_year, out, failure>>

\* the two flows of make_transaction, merged in the same way
make_transaction_call ==
    /\ pc = "event"
    /\ call.op = "make_transaction"
    /\ input' = [input EXCEPT !.flows =
                    build_model_flows(input.flows,
                        make_transaction(call.name, call.source, call.target,
                                         call.time, call.value))]
    /\ pc' = "start"
    /\ UNCHANGED <<build, call, ret, tbl, flows, category_values, cur_year, out, failure>>

NextEvent ==
    \/ HousePurchase_build_flows_call
    \/ make_transaction_call
    \/ Model_new
    \/ Model_run_begin
    \/ Model_run_iteration
    \/ Model_run_return

SpecEvent == InitEvent /\ [][NextEvent]_vars

(***************************************************************************)
(* Claims about the events                                                 *)
(***************************************************************************)
EventTimes == {Time(y, m) : y \in Y0..(Y0 + NumYears + 1), m \in MonthSet}

\* the reported months of the run of the plan
EventMonths ==
    {<<y, cat, m>> \in (DOMAIN out) \X CategoryNames(input.categories) \X MonthSet :
        cat \in DOMAIN out[y].category_summary}

\* the event went into a Model
EventBuilt(op) == call.op = op /\ pc \notin {"event", "failed"}

\* what the purchase does to the categories in the purchase month
PurchaseSetup(hp) ==
    {[category |-> hp.mortgage_category,
      name     |-> hp.property_name \o " initial mortgage setup",
      amount   |-> WNeg(WSub(hp.purchase_price, hp.down_payment))],
     [category |-> hp.house_value_category,
      name     |-> hp.property_name \o " initial house value",
      amount   |-> hp.purchase_price],
     [category |-> hp.down_payment_category,
      name     |-> hp.property_name \o " down payment",
      amount   |-> WNeg(hp.down_payment)],
     [category |-> hp.down_payment_category,
      name     |-> hp.property_name \o " mortgage setup cost",
      amount   |-> WNeg(hp.setup_cost)]}

\* C25: the flows of a HousePurchase that apply in the purchase month are
\* four tax-exempt fixed flows, -(purchase_price - down_payment) on the
\* mortgage category, +purchase_price on the house-value category and
\* -down_payment and -setup_cost on the down-payment category; they apply in
\* no other month, and a run records their transactions, with these
\* amounts and no tax, in the purchase month of their category and nowhere
\* else.
C25_SetupFlows ==
    EventBuilt("HousePurchase") =>
        LET hp    == call.event
            start == hp.time_range.start
            built == HousePurchase_build_flows(hp, call.amortised).val
            four  == {i \in 1..Len(built) : FlowValue_applies_at(start, built[i][2])}
        IN  /\ Cardinality(four) = 4
            /\ {<<built[i][1], built[i][2].name, built[i][2].value>> : i \in four}
                  = {<<e.category, e.name, FixedFlow(e.amount)>> : e \in PurchaseSetup(hp)}
            /\ \A i \in four :
                  /\ built[i][2].tax_policy = TaxExempt
                  /\ \A t \in EventTimes :
                        FlowValue_applies_at(t, built[i][2]) <=> t = start
            /\ \A k \in EventMonths, e \in PurchaseSetup(hp) :
                  LET txns == Reported(k[1], k[2], k[3]).transactions
                  IN  /\ e.name \in DOMAIN txns
                            <=> (k[2] = e.category /\ Time(k[1], k[3]) = start)
                      /\ e.name \in DOMAIN txns =>
                            /\ txns[e.name].amount = e.amount
                            /\ txns[e.name].tax_tx = TaxTx(Zero, Zero)

\* a finished run of a $300,000 purchase in November with $60,000 down and
\* $4,500 of setup cost, every role in a category of its own: November
\* records -$240,000 on the mortgage, +$300,000 on the house and both
\* -$60,000 and -$4,500 on the savings, December none of them
C25_Witness ==
    /\ EventBuilt("HousePurchase")
    /\ pc = "done"
    /\ call.event.time_range.start = Time(Y0, "November")
    /\ call.event.mortgage_category = "mortgage"
    /\ call.event.down_payment_category = "savings"
    /\ call.event.regular_payment_category = "checking"
    /\ Reported(Y0, "mortgage", "November").transactions["home initial mortgage setup"].amount
          = Money_from_dollars(-240000)
    /\ Reported(Y0, "house", "November").transactions["home initial house value"].amount
          = Money_from_dollars(300000)
    /\ Reported(Y0, "savings", "November").transactions["home down payment"].amount
          = Money_from_dollars(-60000)
    /\ Reported(Y0, "savings", "November").transactions["home mortgage setup cost"].amount
          = Money_from_dollars(-4500)
    /\ Reported(Y0, "savings", "November").value = Money_from_dollars(15500)
    /\ "home down payment" \notin DOMAIN Reported(Y0, "savings", "December").transactions

\* the names of the flows build_flows gives a purchase
EventFlowNames(hp) ==
    {e.name : e \in PurchaseSetup(hp)}
        \cup {hp.property_name \o " loan payment", hp.property_name \o " mortgage interest"}

\* what month m of year y added to the balances of the categories
RECURSIVE SumChanges(_, _, _)
SumChanges(y, m, cats) ==
    IF cats = {} THEN Zero
    ELSE LET c == CHOOSE c \in cats : TRUE
         IN  WAdd(WSub(Reported(y, c, m).value, PrevBalance(c, y, m)),
                  SumChanges(y, m, cats \ {c}))

RECURSIVE SumSetup(_)
SumSetup(es) ==
    IF es = {} THEN Zero
    ELSE LET e == CHOOSE e \in es : TRUE IN WAdd(e.amount, SumSetup(es \ {e}))

\* C28: the amounts of the four flows of a HousePurchase that apply in the
\* purchase month sum to -setup_cost, and when a run reports the purchase
\* month, the balances of all categories together change in it by
\* -setup_cost plus the transactions of the flows that are not the event's,
\* whichever categories the four roles name.
C28_PurchaseConserves ==
    EventBuilt("HousePurchase") =>
        LET hp    == call.event
            start == hp.time_range.start
            y     == start.year
            m     == start.month
            built == HousePurchase_build_flows(hp, call.amortised).val
            four  == {i \in 1..Len(built) : FlowValue_applies_at(start, built[i][2])}
        IN  /\ SumSetup({[i |-> i, amount |-> built[i][2].value.value] : i \in four})
                  = WNeg(hp.setup_cost)
            /\ y \in DOMAIN out =>
                  LET simulated == DOMAIN out[y].category_summary
                      others == {k \in RecordedTxns(y) :
                                    k[2] = m /\ k[3] \notin EventFlowNames(hp)}
                  IN  /\ \A i \in 1..Len(category_values) :
                            category_values[i].name \notin simulated =>
                                category_values[i].value
                                    = InitialValue(category_values[i].name)
                      /\ SumChanges(y, m, simulated)
                            = WAdd(WNeg(hp.setup_cost),
                                   SumRecorded(y, others, "net_amount"))

\* a finished run of the $300,000 purchase whose house-value, mortgage and
\* down-payment roles all name the category "house": its four transactions
\* are recorded side by side and November leaves the category, empty
\* before, at -$4,500
C28_Witness ==
    /\ EventBuilt("HousePurchase")
    /\ pc = "done"
    /\ call.event.time_range.start = Time(Y0, "November")
    /\ call.event.mortgage_category = "house"
    /\ call.event.down_payment_category = "house"
    /\ call.event.setup_cost = Money_from_dollars(4500)
    /\ {e.name : e \in PurchaseSetup(call.event)}
          = DOMAIN Reported(Y0, "house", "November").transactions
    /\ Reported(Y0, "house", "October").value = Zero
    /\ Reported(Y0, "house", "November").value = Money_from_dollars(-4500)

\* the payment calculate_repayment computes for the purchase
ComputedPayment(hp, amortised) ==
    HousePurchase_calculate_repayment(WSub(hp.purchase_price, hp.down_payment),
                                      hp.time_range, hp.mortgage_rate, amortised).val

\* the months in which the loan is paid: [start + 1, end + 1)
LoanMonth(hp, t) ==
    /\ Time_le(Time_next(hp.time_range.start), t)
    /\ Time_lt(t, Time_next(hp.time_range.end))

\* C26: for a purchase with purchase_price > down_payment and a positive
\* rate, every reported month of [start + 1, end + 1) records on the
\* regular-payment category a loan payment of minus the computed payment,
\* on the mortgage category a loan payment of plus the computed payment and
\* a mortgage interest of the balance at the start of the month at a
\* twelfth of the annual rate; no other reported month records any of the
\* three.
C26_LoanFlows ==
    (/\ EventBuilt("HousePurchase")
     /\ WLt(call.event.down_payment, call.event.purchase_price)
     /\ WLt(Zero, call.event.mortgage_rate)) =>
        LET hp       == call.event
            payment  == ComputedPayment(hp, call.amortised)
            paid     == hp.property_name \o " loan payment"
            accrued  == hp.property_name \o " mortgage interest"
        IN  \A k \in EventMonths :
                LET txns == Reported(k[1], k[2], k[3]).transactions
                    prev == PrevBalance(k[2], k[1], k[3])
                IN  IF LoanMonth(hp, Time(k[1], k[3]))
                    THEN /\ k[2] = hp.regular_payment_category =>
                               /\ paid \in DOMAIN txns
                               /\ txns[paid].amount = WNeg(payment)
                         /\ k[2] = hp.mortgage_category =>
                               /\ paid \in DOMAIN txns
                               /\ txns[paid].amount = payment
                               /\ accrued \in DOMAIN txns
                               /\ txns[accrued].amount
                                     = Money_at_rate(prev, Rate_div(hp.mortgage_rate,
                                                                    I(12)).val).val
                    ELSE /\ paid \notin DOMAIN txns
                         /\ accrued \notin DOMAIN txns

\* the same with the payment added to the regular-payment category, as
\* build_flows pushes it: the amount is the positive payment on both
\* categories, once if they are the same category
C26_LoanFlowsAsBuilt ==
    (/\ EventBuilt("HousePurchase")
     /\ WLt(call.event.down_payment, call.event.purchase_price)
     /\ WLt(Zero, call.event.mortgage_rate)) =>
        LET hp       == call.event
            payment  == ComputedPayment(hp, call.amortised)
            paid     == hp.property_name \o " loan payment"
            accrued  == hp.property_name \o " mortgage interest"
        IN  /\ WLt(Zero, payment)
            /\ \A k \in EventMonths :
                  LET txns == Reported(k[1], k[2], k[3]).transactions
                      prev == PrevBalance(k[2], k[1], k[3])
                  IN  IF LoanMonth(hp, Time(k[1], k[3]))
                      THEN /\ k[2] \in {hp.regular_payment_category, hp.mortgage_category} =>
                                 /\ paid \in DOMAIN txns
                                 /\ txns[paid].amount = payment
                           /\ k[2] = hp.mortgage_category =>
                                 /\ accrued \in DOMAIN txns
                                 /\ txns[accrued].amount
                                       = Money_at_rate(prev, Rate_div(hp.mortgage_rate,
                                                                      I(12)).val).val
                      ELSE /\ paid \notin DOMAIN txns
                           /\ accrued \notin DOMAIN txns

\* C29: when the two flows of make_transaction(name, source, target, time,
\* value) are in a model whose run covers `time`, the month `time` of the
\* source category records "{name} source" with -value, that of the target
\* category "{name} target" with +value, both without tax, and no other
\* reported month records either of them.
C29_OnceOffTransfer ==
    (EventBuilt("make_transaction") /\ pc = "done" /\ call.time.year \in DOMAIN out) =>
        LET src == call.name \o " source"
            tgt == call.name \o " target"
        IN  \A k \in EventMonths :
                LET txns == Reported(k[1], k[2], k[3]).transactions
                    at   == Time(k[1], k[3]) = call.time
                IN  /\ src \in DOMAIN txns <=> (at /\ k[2] = call.source)
                    /\ tgt \in DOMAIN txns <=> (at /\ k[2] = call.target)
                    /\ src \in DOMAIN txns =>
                          /\ txns[src].amount = WNeg(call.value)
                          /\ txns[src].tax_tx = TaxTx(Zero, Zero)
                    /\ tgt \in DOMAIN txns =>
                          /\ txns[tgt].amount = call.value
                          /\ txns[tgt].tax_tx = TaxTx(Zero, Zero)

\* the two flows have the amounts and the policy of a transfer at `time`,
\* but their window [time, time) holds no month: no run records them
C29_TransferNeverApplies ==
    EventBuilt("make_transaction") =>
        LET built == make_transaction(call.name, call.source, call.target,
                                      call.time, call.value)
        IN  /\ <<built[1][1], built[1][2].value>> = <<call.source, FixedFlow(WNeg(call.value))>>
            /\ <<built[2][1], built[2][2].value>> = <<call.target, FixedFlow(call.value)>>
            /\ \A i \in 1..2 :
                  /\ built[i][2].tax_policy = TaxExempt
                  /\ \A t \in EventTimes : ~FlowValue_applies_at(t, built[i][2])
            /\ \A k \in EventMonths :
                  DOMAIN Reported(k[1], k[2], k[3]).transactions
                      \cap {built[1][2].name, built[2][2].name} = {}

(***************************************************************************)
(* Claims about the sign of a parsed Rate                                  *)
(***************************************************************************)
IsDigits(q) == q # <<>> /\ \A i \in 1..Len(q) : q[i] \in Digits

\* "-W" of digits W, with or without a percent sign
NegativeWhole(s) ==
    /\ s # <<>>
    /\ Head(s) = "-"
    /\ IsDigits(str_trim_end_matches(Tail(s), {"%"}))

\* "-W.F" of digits W and of one to six digits F
NegativeDecimal(s) ==
    /\ s # <<>>
    /\ Head(s) = "-"
    /\ LET body == str_trim_end_matches(Tail(s), {"%"})
       IN  /\ \E i \in 1..Len(body) : body[i] = "."
           /\ IsDigits(str_split_once(body, ".")[1])
           /\ IsDigits(str_split_once(body, ".")[2])
           /\ Len(str_split_once(body, ".")[2]) <= RATE_PRECISION

\* the text parses to the negation of what it parses to without its sign
NegatesUnsigned ==
    /\ ret.kind = "Ok"
    /\ Rate_from_str(Tail(call.s)).kind = "Ok"
    /\ ret.val = WNeg(Rate_from_str(Tail(call.s)).val)

\* C30: the parse of "-W.F", F of one to six digits, is the negation of the
\* parse of "W.F", W = 0 included, as the parse of "-W" is the negation of
\* the parse of "W".
C30_SignSymmetry ==
    (Parsed /\ (NegativeDecimal(call.s) \/ NegativeWhole(call.s))) => NegatesUnsigned

\* the symmetry does hold without a fraction, and with one of zeros only
C30_WholeSignSymmetry ==
    (/\ Parsed
     /\ \/ NegativeWhole(call.s)
        \/ /\ NegativeDecimal(call.s)
           /\ \A i \in 1..Len(call.s) : call.s[i] \in {"-", "0", ".", "%"}
           /\ Rate_from_str(Tail(call.s)).val
                 = WMul(i64_from_str(str_split_once(Tail(call.s), ".")[1]).val,
                        I(RATE_SCALE))) => NegatesUnsigned

\* with a fraction the fractional part is added to the negative whole
\* part, and "-0" is the whole part 0
C30_FractionKeepsSign ==
    (Parsed /\ NegativeDecimal(call.s)) =>
        LET body  == str_trim_end_matches(Tail(call.s), {"%"})
            whole == Rate_from_str(str_split_once(body, ".")[1]).val
            both  == Rate_from_str(body).val
        IN  /\ ret.kind = "Ok"
            /\ ret.val = WAdd(WNeg(whole), WSub(both, whole))

(***************************************************************************)
(* Runs of a category whose flows have pairwise distinct names, in every   *)
(* order of the list                                                       *)
(***************************************************************************)
\* a charge of four months
fee ==
    Flow("fee", Time(Y0, "May"), Time(Y0, "September"), "Monthly",
         FixedFlow(Money_from_dollars(-45)), TaxExempt)

OrderMenu == {salary, interest, indexed, fee}

DistinctNames(list) ==
    \A i, j \in 1..Len(list) : i # j => list[i].name # list[j].name

Arrangements(menu, n) == {l \in [1..n -> menu] : DistinctNames(l)}

OrderInputs ==
    {ModelInput([c \in {"c1", "c2"} |-> IF c = "c1" THEN l ELSE <<rent>>], tc,
                [start |-> Y0, end |-> Y0 + NumYears]) :
        l \in Arrangements(OrderMenu, MaxFlows + 1), tc \in {"c1", "c2"}}

InitOrder ==
    /\ build = "release"
    /\ call = [op |-> "Model"]
    /\ ret = Pending
    /\ tbl = <<>>
    /\ pc = "start"
    /\ input \in OrderInputs
    /\ flows = <<>>
    /\ category_values = <<>>
    /\ cur_year = 0
    /\ out = <<>>
    /\ failure = NoFailure

SpecOrder == InitOrder /\ [][Next]_vars

\* the list with its first n flows in the order p
Permuted(list, n, p) == [i \in 1..Len(list) |-> IF i <= n THEN list[p[i]] ELSE list[i]]

\* the flows of the Model had the flows of category c been given in the
\* order p: the tax flows pushed since follow them
PermutedFlows(c, p) == [flows EXCEPT ![c] = Permuted(@, Len(input.flows[c]), p)]

\* C27: when the flows given for a category have pairwise distinct names,
\* the year about to run yields the same YearlyReport (every MonthlyReport,
\* the TaxSummary and the TaxAdjustment) and the same category values from
\* the flows in any other order, and leaves the flows in that order with
\* the same tax flow pushed; it fails in one order if it fails in another.
\* Every year of a run starts from the values and the flows the year before
\* left, so the runs agree year by year.
C27_OrderIndependence ==
    (pc = "running" /\ TimeRangeIter_has_next(cur_year, input.time_range.end)) =>
        \A c \in DOMAIN input.flows :
            DistinctNames(input.flows[c]) =>
                \A p \in Perms(Len(input.flows[c])) :
                    LET given == Model_run_year(cur_year, category_values, flows,
                                                input.tax_policy, input.tax_category)
                        other == Model_run_year(cur_year, category_values,
                                                PermutedFlows(c, p),
                                                input.tax_policy, input.tax_category)
                    IN  /\ other.kind = given.kind
                        /\ given.kind = "Ok" =>
                              /\ other.val.report = given.val.report
                              /\ other.val.category_values = given.val.category_values
                              /\ other.val.flows
                                    = [given.val.flows EXCEPT ![c] =
                                          Permuted(@, Len(input.flows[c]), p)]

\* the second year of a run is about to start with <<interest, salary,
\* fee>> and the tax flow of the first year on c1; May of the first year
\* recorded all three, the interest on the balance before the salary
C27_Witness ==
    /\ pc = "running"
    /\ cur_year = Y0 + 1
    /\ input.tax_category = "c1"
    /\ input.flows["c1"] = <<interest, salary, fee>>
    /\ Len(flows["c1"]) = 4
    /\ DOMAIN Reported(Y0, "c1", "May").transactions = {"interest", "salary", "fee"}
    /\ Reported(Y0, "c1", "May").transactions["interest"].amount
          = Money_at_rate(Reported(Y0, "c1", "April").value, Percent(1)).val

====
